---- MODULE Spec2Model ----
(***************************************************************************)
(* Model of the leaderboard plugin's standings pipeline:                   *)
(*   src/data_fetcher.py   DataFetcher (three fetch strategies, the cache  *)
(*                         read-through / write-through, record parsing)   *)
(*   src/league_config.py  LeagueConfig (the league registry)              *)
(*   src/manager.py        LeaderboardPlugin (update cycle and display)    *)
(*                                                                         *)
(* Specifications                                                          *)
(*   SpecParse  DataFetcher._parse_record applied to bounded strings       *)
(*   Spec       DataFetcher.fetch_standings called for the enabled leagues *)
(*              of a configuration, against a cache whose entries can go   *)
(*              stale, with upstream responses drawn from bounded sets     *)
(*   SpecShared the same calls, the cache gateway holding at construction   *)
(*              an entry of another writer                                 *)
(*   SpecExtract  DataFetcher._extract_team_standing applied to one entry  *)
(*              with bounded stats, alone and inside a response            *)
(*   SpecPlugin LeaderboardPlugin after construction: update() and         *)
(*              display() called by the host as time passes                *)
(*   SpecHost   LeaderboardPlugin after construction: every call of the    *)
(*              display controller, and a cache gateway that can raise     *)
(*   SpecConfig LeaderboardPlugin.__init__ on bounded global settings,     *)
(*              then get_info, set_scroll_delay and set_scroll_speed       *)
(*   SpecRegistry LeagueConfig built from any enabled_sports object and    *)
(*              queried by the host                                        *)
(***************************************************************************)
EXTENDS Integers, Sequences, FiniteSets, TLC

VARIABLES
    record_summary,  \* SpecParse: the string handed to _parse_record
    parsed,          \* SpecParse: the tuple _parse_record returned, or None
    enabled_sports,  \* config['enabled_sports'] as read by LeagueConfig
    cache,           \* cache_manager: cache key -> payload (absent key: no fresh entry)
    last,            \* the last fetch_standings call: its league, what the
                     \* upstream answered, what it wrote and what it returned
    response,        \* SpecExtract: the league slug and the entry under extraction
    extracted,       \* SpecExtract: what the extraction produced, or None
    enabled,         \* BasePlugin.enabled
    update_interval, \* global.update_interval
    dynamic_duration_enabled,
    leaderboard_data,\* the sections of the last update cycle
    last_update,     \* time of the last completed update cycle
    cached_image,    \* scroll_helper.cached_image: the data it was rendered from, or None
    cycle_complete,  \* _cycle_complete
    now,             \* time.time()
    cycle,           \* the last call of the host into the plugin: what it did
    global_config,   \* config['global'] handed to LeaderboardPlugin.__init__
    attrs,           \* the scroll and dynamic duration attributes __init__ assigned
    call             \* the last configuration call of the host: what it did

parseVars == <<record_summary, parsed>>
extractVars == <<response, extracted>>
pluginVars == <<enabled, update_interval, dynamic_duration_enabled, leaderboard_data,
                last_update, cached_image, cycle_complete, now, cycle>>

configVars == <<global_config, attrs, call>>

vars == <<parseVars, enabled_sports, cache, last, extractVars, pluginVars, configVars>>

\* Python's None where the other values are strings (season, id, abbreviation)
None == "None"

\* dict.get(key, default); a dict is a function on the keys it holds
Get(d, key, default) == IF key \in DOMAIN d THEN d[key] ELSE default

\* the dict without entries
EmptyDict == <<>>

(***************************************************************************)
(* Numbers.  win_percentage is a float in the code; the model keeps it     *)
(* exact as a reduced fraction <<numerator, denominator>>.                 *)
(***************************************************************************)
RECURSIVE Gcd(_, _)
Gcd(a, b) == IF b = 0 THEN a ELSE Gcd(b, a % b)

\* n / d for n >= 0, d > 0
Frac(n, d) == LET g == Gcd(n, d) IN <<n \div g, d \div g>>

\* the int 0 / float 0.0 a win_percentage starts from
Zero == <<0, 1>>

\* p >= q on fractions
FracGeq(p, q) == p[1] * q[2] >= q[1] * p[2]

\* wins / total_games if total_games > 0 else 0
WinPct(wins, total_games) == IF total_games > 0 THEN Frac(wins, total_games) ELSE Zero

(***************************************************************************)
(* Record strings: sequences of one-character strings.                     *)
(***************************************************************************)
AllDigits == <<"0", "1", "2", "3", "4", "5", "6", "7", "8", "9">>
IsDigit(c) == \E i \in 1..Len(AllDigits) : AllDigits[i] = c
DigitVal(c) == (CHOOSE i \in 1..Len(AllDigits) : AllDigits[i] = c) - 1

\* the alphabet and the longest record string SpecParse draws
Chars == {"0", "1", "2", "-", "x"}
MaxLen == 5

RECURSIVE StringsUpTo(_)
StringsUpTo(n) ==
    IF n = 0 THEN {<<>>}
    ELSE LET shorter == StringsUpTo(n - 1)
         IN  shorter \cup {Append(s, c) : s \in {t \in shorter : Len(t) = n - 1}, c \in Chars}

\* str.split('-'): the parts between the separators; "" splits into [""]
RECURSIVE Split(_)
Split(s) ==
    IF \A i \in 1..Len(s) : s[i] # "-"
    THEN <<s>>
    ELSE LET i == CHOOSE k \in 1..Len(s) :
                      s[k] = "-" /\ \A j \in 1..(k - 1) : s[j] # "-"
         IN  <<SubSeq(s, 1, i - 1)>> \o Split(SubSeq(s, i + 1, Len(s)))

\* int(part) succeeds (over Chars: a non-empty run of digits), else ValueError
IsInt(part) == Len(part) > 0 /\ \A i \in 1..Len(part) : IsDigit(part[i])

\* int(part) for a part with IsInt(part)
RECURSIVE IntOf(_)
IntOf(part) ==
    IF Len(part) = 0 THEN 0
    ELSE 10 * IntOf(SubSeq(part, 1, Len(part) - 1)) + DigitVal(part[Len(part)])

Rec(w, l, t, p) == [wins |-> w, losses |-> l, ties |-> t, win_percentage |-> p]

\* _parse_record: wins, losses, ties are assigned one after the other inside
\* the try block; a ValueError leaves the ones already assigned in place.
ParseRecord(s) ==
    LET parts == Split(s) IN
    IF Len(parts) < 2 THEN Rec(0, 0, 0, Zero)
    ELSE IF ~IsInt(parts[1]) THEN Rec(0, 0, 0, Zero)
    ELSE LET wins == IntOf(parts[1]) IN
    IF ~IsInt(parts[2]) THEN Rec(wins, 0, 0, Zero)
    ELSE LET losses == IntOf(parts[2]) IN
    IF Len(parts) = 3 /\ ~IsInt(parts[3]) THEN Rec(wins, losses, 0, Zero)
    ELSE LET ties == IF Len(parts) = 3 THEN IntOf(parts[3]) ELSE 0
         IN  Rec(wins, losses, ties, WinPct(wins, wins + losses + ties))

(***************************************************************************)
(* League registry (LeagueConfig).                                         *)
(***************************************************************************)
\* the registry's keys, in the order of the dict literal
LeagueKeys == <<"nfl", "nba", "mlb", "ncaa_fb", "nhl", "ncaam_basketball",
                "ncaaw_basketball", "ncaa_baseball", "ncaam_hockey">>

LeagueKeySet == {LeagueKeys[i] : i \in 1..Len(LeagueKeys)}

\* mutant: every league is enabled by default
get_enabled_defaultAll(k) == TRUE

\* DEFAULT_ENABLED.get(league_key, False)
get_enabled_default(k) == k \in {"nfl", "ncaa_fb", "ncaam_hockey"}

DefaultSort == "winpercent:desc,gamesbehind:asc"

\* self.enabled_sports.get(k, {})
SportOptions(es, k) == Get(es, k, EmptyDict)

\* the fields every registry entry has
CommonFields(es, k, sport, league, top) ==
    [sport |-> sport, league |-> league,
     enabled |-> Get(SportOptions(es, k), "enabled", get_enabled_default(k)),
     top_teams |-> Get(SportOptions(es, k), "top_teams", top)]

\* season (None unless configured), level and sort of the standings leagues
StandingsFields(es, k, url) ==
    [standings_url |-> url,
     season |-> Get(SportOptions(es, k), "season", None),
     level |-> Get(SportOptions(es, k), "level", 1),
     sort |-> Get(SportOptions(es, k), "sort", DefaultSort)]

\* _initialize_league_configs: the entry built for registry key k
LeagueEntry(es, k) ==
    CASE k = "nfl" ->
           CommonFields(es, k, "football", "nfl", 10)
           @@ StandingsFields(es, k, "apis/v2/sports/football/nfl/standings")
      [] k = "nba" ->
           CommonFields(es, k, "basketball", "nba", 10)
           @@ [teams_url |-> "apis/site/v2/sports/basketball/nba/teams",
               standings_url |-> "apis/v2/sports/basketball/nba/standings"]
      [] k = "mlb" ->
           CommonFields(es, k, "baseball", "mlb", 10)
           @@ StandingsFields(es, k, "apis/v2/sports/baseball/mlb/standings")
      [] k = "ncaa_fb" ->
           CommonFields(es, k, "football", "college-football", 25)
           @@ [teams_url |-> "apis/site/v2/sports/football/college-football/teams",
               rankings_url |-> "apis/site/v2/sports/football/college-football/rankings"]
      [] k = "nhl" ->
           CommonFields(es, k, "hockey", "nhl", 10)
           @@ StandingsFields(es, k, "apis/v2/sports/hockey/nhl/standings")
      [] k = "ncaam_basketball" ->
           CommonFields(es, k, "basketball", "mens-college-basketball", 25)
           @@ [teams_url |-> "apis/site/v2/sports/basketball/mens-college-basketball/teams"]
      [] k = "ncaaw_basketball" ->
           CommonFields(es, k, "basketball", "womens-college-basketball", 25)
           @@ [teams_url |-> "apis/site/v2/sports/basketball/womens-college-basketball/teams"]
      [] k = "ncaa_baseball" ->
           CommonFields(es, k, "baseball", "college-baseball", 25)
           @@ StandingsFields(es, k, "apis/v2/sports/baseball/college-baseball/standings")
      [] k = "ncaam_hockey" ->
           CommonFields(es, k, "hockey", "mens-college-hockey", 25)
           @@ [rankings_url |-> "apis/site/v2/sports/hockey/mens-college-hockey/rankings"]

\* self.league_configs
league_configs(es) == [k \in LeagueKeySet |-> LeagueEntry(es, k)]

\* get_enabled_leagues: the enabled keys, in registry order
RECURSIVE EnabledFrom(_, _)
EnabledFrom(es, i) ==
    IF i > Len(LeagueKeys) THEN <<>>
    ELSE (IF Get(LeagueEntry(es, LeagueKeys[i]), "enabled", FALSE)
          THEN <<LeagueKeys[i]>> ELSE <<>>) \o EnabledFrom(es, i + 1)

get_enabled_leagues(es) == EnabledFrom(es, 1)

\* mutant: the slice keeps everything
PrefixAll(list, n) == list

\* list[:n] for n >= 0
Prefix(list, n) == SubSeq(list, 1, IF n < Len(list) THEN n ELSE Len(list))

\* bool(value) of a str / None value: None and "" are falsy
Truthy(v) == v # None /\ v # ""

(***************************************************************************)
(* The cache gateway as the fetcher uses it: get_cached_data_with_strategy *)
(* returns the payload of a fresh entry or None, save_cache stores one.    *)
(* Keys are kept as the pieces of the f-string that builds them.  The      *)
(* timestamp field of a payload is not modelled.                           *)
(***************************************************************************)
LeagueCacheKey(league_key) == <<"leaderboard_", league_key>>
RankingsCacheKey(league_key) == <<"leaderboard_", league_key, "_rankings">>
StandingsCacheKey(league_key) == <<"leaderboard_", league_key, "_standings">>
\* mutant: the team is left out of the record key
TeamRecordCacheKeyNoTeam(league, team_abbr) == <<"team_record_", league>>

TeamRecordCacheKey(league, team_abbr) == <<"team_record_", league, "_", team_abbr>>

\* the characters of the pieces the f-strings put together
Spell(piece) ==
    CASE piece = "leaderboard_" -> <<"l", "e", "a", "d", "e", "r", "b", "o", "a", "r", "d", "_">>
      [] piece = "team_record_" -> <<"t", "e", "a", "m", "_", "r", "e", "c", "o", "r", "d", "_">>
      [] piece = "_rankings" -> <<"_", "r", "a", "n", "k", "i", "n", "g", "s">>
      [] piece = "_standings" -> <<"_", "s", "t", "a", "n", "d", "i", "n", "g", "s">>
      [] piece = "_" -> <<"_">>
      [] piece = "nfl" -> <<"n", "f", "l">>
      [] piece = "nba" -> <<"n", "b", "a">>
      [] piece = "mlb" -> <<"m", "l", "b">>
      [] piece = "nhl" -> <<"n", "h", "l">>
      [] piece = "college-football" ->
           <<"c", "o", "l", "l", "e", "g", "e", "-", "f", "o", "o", "t", "b", "a", "l", "l">>
      [] piece = "college-baseball" ->
           <<"c", "o", "l", "l", "e", "g", "e", "-", "b", "a", "s", "e", "b", "a", "l", "l">>
      [] piece = "mens-college-hockey" ->
           <<"m", "e", "n", "s", "-", "c", "o", "l", "l", "e", "g", "e", "-",
             "h", "o", "c", "k", "e", "y">>
      [] piece = "mens-college-basketball" ->
           <<"m", "e", "n", "s", "-", "c", "o", "l", "l", "e", "g", "e", "-",
             "b", "a", "s", "k", "e", "t", "b", "a", "l", "l">>
      [] piece = "womens-college-basketball" ->
           <<"w", "o", "m", "e", "n", "s", "-", "c", "o", "l", "l", "e", "g", "e", "-",
             "b", "a", "s", "k", "e", "t", "b", "a", "l", "l">>
      [] OTHER -> <<piece>>

\* the string an f-string builds from its pieces
RECURSIVE KeyString(_)
KeyString(key) ==
    IF Len(key) = 0 THEN <<>> ELSE Spell(Head(key)) \o KeyString(Tail(key))

\* `if cached_data:` - a fresh entry is held (every payload is a non-empty dict)
Cached(c, key) == key \in DOMAIN c

\* save_cache(key, payload)
SaveCache(c, key, payload) ==
    [k \in DOMAIN c \cup {key} |-> IF k = key THEN payload ELSE c[k]]

\* mutant: the cached list is cut again on the way out
CachedStandingsRecut(payload) == Prefix(Get(payload, "standings", <<>>), 1)

\* cached_data.get('standings', [])
CachedStandings(payload) == Get(payload, "standings", <<>>)

\* what a call reports: the local `standings` before truncation, the list
\* returned, the cache it leaves, the number of outbound requests it issued,
\* the number of counter increments it made, the query parameters of its
\* league-level request (EmptyDict when none is sent)
Outcome(status, standings, result, c, http, counted, params) ==
    [status |-> status, standings |-> standings, result |-> result, cache |-> c,
     http |-> http, counted |-> counted, params |-> params]

\* mutant: the entry is written back on a hit, cut down to its list
HitOutcomeWritesBack(c, cache_key) ==
    Outcome("hit", <<>>, Get(c[cache_key], "standings", <<>>),
            SaveCache(c, cache_key, [standings |-> Get(c[cache_key], "standings", <<>>)]),
            0, 0, EmptyDict)

\* the read-through return of a strategy: the cached list, nothing else done
HitOutcome(c, cache_key) ==
    Outcome("hit", <<>>, CachedStandings(c[cache_key]), c, 0, 0, EmptyDict)

\* mutant: the failure path stores the empty list it returns
ErrorOutcomeCached(cache_key, c, params) ==
    Outcome("error", <<>>, <<>>, SaveCache(c, cache_key, [standings |-> <<>>]), 1, 0, params)

\* `except Exception: return []` of a fetch whose request under cache_key's
\* league failed: an empty list, the cache as it was, no counter increment
ErrorOutcome(cache_key, c, params) == Outcome("error", <<>>, <<>>, c, 1, 0, params)

\* mutant: the empty result is stored
EmptyOutcomeCached(cache_key, c, params) ==
    Outcome("empty", <<>>, <<>>, SaveCache(c, cache_key, [standings |-> <<>>]), 1, 1, params)

\* `return []` of a fetch whose response held nothing usable: logged, an empty
\* list, the cache as it was
EmptyOutcome(cache_key, c, params) == Outcome("empty", <<>>, <<>>, c, 1, 1, params)

\* an upstream answer: an exception out of requests.get / raise_for_status /
\* response.json(), or the decoded JSON document
FailureKinds == {"ConnectionError", "Timeout", "HTTPError", "JSONDecodeError"}
Failure(kind) == [fail |-> kind]
Json(data) == [data |-> data]
Failed(up) == "fail" \in DOMAIN up

(***************************************************************************)
(* Strategy: rankings polls.                                               *)
(***************************************************************************)
UpperCase == <<"A", "B", "C", "D", "E", "F", "G", "H", "I", "J", "K", "L", "M",
               "N", "O", "P", "Q", "R", "S", "T", "U", "V", "W", "X", "Y", "Z">>
LowerCase == <<"a", "b", "c", "d", "e", "f", "g", "h", "i", "j", "k", "l", "m",
               "n", "o", "p", "q", "r", "s", "t", "u", "v", "w", "x", "y", "z">>

\* str.lower()
LowerChar(ch) ==
    IF \E i \in 1..Len(UpperCase) : UpperCase[i] = ch
    THEN LowerCase[CHOOSE i \in 1..Len(UpperCase) : UpperCase[i] = ch]
    ELSE ch
Lower(str) == [i \in 1..Len(str) |-> LowerChar(str[i])]

\* sub in str
Contains(str, sub) ==
    \E i \in 1..(Len(str) - Len(sub) + 1) : SubSeq(str, i, i + Len(sub) - 1) = sub

\* the defaults of ranking.get('name', ...)
ApTop25 == <<"A", "P", " ", "T", "o", "p", " ", "2", "5">>
UnknownName == <<"U", "n", "k", "n", "o", "w", "n">>

\* ('ap' in name and 'top' in name) or ranking_type == 'ap'
IsApTop(ranking) ==
    LET name == Lower(Get(ranking, "name", <<>>))
        ranking_type == Lower(Get(ranking, "type", <<>>))
    IN  \/ Contains(name, <<"a", "p">>) /\ Contains(name, <<"t", "o", "p">>)
        \/ ranking_type = <<"a", "p">>

\* mutant: the AP poll is not looked for
SelectApRankingFirstOnly(rankings_data) ==
    [ranking |-> rankings_data[1],
     ranking_name |-> Get(rankings_data[1], "name", UnknownName)]

\* football / basketball: the first poll that is the AP Top 25, else the first
\* poll; the poll and its display name
SelectApRanking(rankings_data) ==
    IF \E i \in 1..Len(rankings_data) : IsApTop(rankings_data[i])
    THEN LET i == CHOOSE j \in 1..Len(rankings_data) :
                      /\ IsApTop(rankings_data[j])
                      /\ \A h \in 1..(j - 1) : ~IsApTop(rankings_data[h])
         IN  [ranking |-> rankings_data[i],
              ranking_name |-> Get(rankings_data[i], "name", ApTop25)]
    ELSE [ranking |-> rankings_data[1],
          ranking_name |-> Get(rankings_data[1], "name", UnknownName)]

\* hockey: always the first poll
SelectFirstRanking(rankings_data) ==
    [ranking |-> rankings_data[1],
     ranking_name |-> Get(rankings_data[1], "name", UnknownName)]

\* the poll selection of the rankings fetch of league_key
SelectRanking(league_key, rankings_data) ==
    IF league_key = "mens-college-hockey"
    THEN SelectFirstRanking(rankings_data)
    ELSE SelectApRanking(rankings_data)

\* mutant: the rank is computed from the record
RankedTeamByWins(team_data, ranking_name) ==
    LET team_info == Get(team_data, "team", EmptyDict)
        record_summary_ == Get(team_data, "recordSummary", <<"0", "-", "0">>)
        rec == ParseRecord(record_summary_)
    IN  [name |-> Get(team_info, "name", "Unknown"),
         id |-> Get(team_info, "id", None),
         abbreviation |-> Get(team_info, "abbreviation", "Unknown"),
         rank |-> rec.wins + 1,
         wins |-> rec.wins, losses |-> rec.losses, ties |-> rec.ties,
         win_percentage |-> rec.win_percentage,
         record_summary |-> record_summary_,
         ranking_name |-> ranking_name]

\* the standings entry built for one ranked team
RankedTeam(team_data, ranking_name) ==
    LET team_info == Get(team_data, "team", EmptyDict)
        record_summary_ == Get(team_data, "recordSummary", <<"0", "-", "0">>)
        rec == ParseRecord(record_summary_)
    IN  [name |-> Get(team_info, "name", "Unknown"),
         id |-> Get(team_info, "id", None),
         abbreviation |-> Get(team_info, "abbreviation", "Unknown"),
         rank |-> Get(team_data, "current", 0),
         wins |-> rec.wins, losses |-> rec.losses, ties |-> rec.ties,
         win_percentage |-> rec.win_percentage,
         record_summary |-> record_summary_,
         ranking_name |-> ranking_name]

\* _fetch_ncaa_fb_rankings / _fetch_ncaam_hockey_rankings /
\* _fetch_ncaa_basketball_rankings after the cache miss
RankingsFresh(league_config, c, up) ==
    LET league_key == league_config.league
        cache_key == RankingsCacheKey(league_key)
    IN  IF Failed(up) THEN ErrorOutcome(cache_key, c, EmptyDict)
        ELSE LET rankings_data == Get(up.data, "rankings", <<>>) IN
        IF Len(rankings_data) = 0 THEN EmptyOutcome(cache_key, c, EmptyDict)
        ELSE LET sel == SelectRanking(league_key, rankings_data)
                 teams == Get(sel.ranking, "ranks", <<>>)
                 standings == [i \in 1..Len(teams) |-> RankedTeam(teams[i], sel.ranking_name)]
                 top_teams == Prefix(standings, Get(league_config, "top_teams", 25))
                 cache_data == [standings |-> top_teams, league |-> league_key,
                                ranking_name |-> sel.ranking_name]
             IN  Outcome("fetched", standings, top_teams,
                         SaveCache(c, cache_key, cache_data), 1, 1, EmptyDict)

FetchRankings(league_config, c, up) ==
    LET cache_key == RankingsCacheKey(league_config.league)
    IN  IF Cached(c, cache_key)
        THEN HitOutcome(c, cache_key)
        ELSE RankingsFresh(league_config, c, up)

(***************************************************************************)
(* Strategy: standings endpoint.                                           *)
(***************************************************************************)
\* a stat value is a JSON number, kept as a fraction, or a value int() and
\* float() reject
BadValue == <<>>
IsNumber(v) == Len(v) = 2

\* int(stat_value): truncation of a non-negative number
IntValue(v) == v[1] \div v[2]

\* float(stat_value)
FloatValue(v) == Frac(v[1], v[2])

\* str(n) for n >= 0
RECURSIVE IntToStr(_)
IntToStr(n) ==
    IF n < 10 THEN <<AllDigits[n + 1]>>
    ELSE IntToStr(n \div 10) \o <<AllDigits[(n % 10) + 1]>>

\* the locals of _extract_team_standing before the stat loop
StatsStart == [wins |-> 0, losses |-> 0, ties |-> 0, win_percentage |-> Zero,
               games_played |-> Zero, raised |-> FALSE]

\* mutant: the hockey aliases are read in every league
ApplyStatAllLeagues(acc, stat, league_key) ==
    LET stat_type == Get(stat, "type", "")
        stat_value == Get(stat, "value", <<0, 1>>)
        converts == stat_type \in {"wins", "losses", "ties", "winpercent",
                                   "overtimelosses", "gamesplayed"}
    IN  IF acc.raised THEN acc
        ELSE IF converts /\ ~IsNumber(stat_value) THEN [acc EXCEPT !.raised = TRUE]
        ELSE IF stat_type = "wins" THEN [acc EXCEPT !.wins = IntValue(stat_value)]
        ELSE IF stat_type = "losses" THEN [acc EXCEPT !.losses = IntValue(stat_value)]
        ELSE IF stat_type \in {"ties", "overtimelosses"}
             THEN [acc EXCEPT !.ties = IntValue(stat_value)]
        ELSE IF stat_type = "winpercent"
             THEN [acc EXCEPT !.win_percentage = FloatValue(stat_value)]
        ELSE IF stat_type = "gamesplayed"
             THEN [acc EXCEPT !.games_played = FloatValue(stat_value)]
        ELSE acc

\* one pass of the stat loop; raised: int() / float() threw
ApplyStat(acc, stat, league_key) ==
    LET stat_type == Get(stat, "type", "")
        stat_value == Get(stat, "value", <<0, 1>>)
        converts == \/ stat_type \in {"wins", "losses", "ties", "winpercent"}
                    \/ stat_type \in {"overtimelosses", "gamesplayed"} /\ league_key = "nhl"
    IN  IF acc.raised THEN acc
        ELSE IF converts /\ ~IsNumber(stat_value) THEN [acc EXCEPT !.raised = TRUE]
        ELSE IF stat_type = "wins" THEN [acc EXCEPT !.wins = IntValue(stat_value)]
        ELSE IF stat_type = "losses" THEN [acc EXCEPT !.losses = IntValue(stat_value)]
        ELSE IF stat_type = "ties" THEN [acc EXCEPT !.ties = IntValue(stat_value)]
        ELSE IF stat_type = "winpercent"
             THEN [acc EXCEPT !.win_percentage = FloatValue(stat_value)]
        ELSE IF stat_type = "overtimelosses" /\ league_key = "nhl"
             THEN [acc EXCEPT !.ties = IntValue(stat_value)]
        ELSE IF stat_type = "gamesplayed" /\ league_key = "nhl"
             THEN [acc EXCEPT !.games_played = FloatValue(stat_value)]
        ELSE acc

RECURSIVE ApplyStats(_, _, _, _)
ApplyStats(acc, stats, i, league_key) ==
    IF i > Len(stats) THEN acc
    ELSE ApplyStats(ApplyStat(acc, stats[i], league_key), stats, i + 1, league_key)

\* f"{wins}-{losses}-{ties}" if ties > 0 else f"{wins}-{losses}"
RecordSummary(wins, losses, ties) ==
    IF ties > 0
    THEN IntToStr(wins) \o <<"-">> \o IntToStr(losses) \o <<"-">> \o IntToStr(ties)
    ELSE IntToStr(wins) \o <<"-">> \o IntToStr(losses)

\* _extract_team_standing: <<standing>>, or <<>> for None
ExtractTeamStanding(entry, league_key) ==
    LET team_data == Get(entry, "team", EmptyDict)
        stats == Get(entry, "stats", <<>>)
        acc == ApplyStats(StatsStart, stats, 1, league_key)
        win_percentage ==
            IF league_key = "nhl" /\ acc.win_percentage = Zero /\ acc.games_played[1] > 0
            THEN Frac(acc.wins * acc.games_played[2], acc.games_played[1])
            ELSE acc.win_percentage
    IN  IF DOMAIN team_data = {} THEN <<>>
        ELSE IF acc.raised THEN <<>>
        ELSE <<[name |-> Get(team_data, "displayName", "Unknown"),
                id |-> Get(team_data, "id", None),
                abbreviation |-> Get(team_data, "abbreviation", "Unknown"),
                wins |-> acc.wins, losses |-> acc.losses, ties |-> acc.ties,
                win_percentage |-> win_percentage,
                record_summary |-> RecordSummary(acc.wins, acc.losses, acc.ties)]>>

\* the standings extracted from a list of entries, in entry order
RECURSIVE ExtractEntries(_, _)
ExtractEntries(entries, league_key) ==
    IF Len(entries) = 0 THEN <<>>
    ELSE ExtractTeamStanding(Head(entries), league_key)
         \o ExtractEntries(Tail(entries), league_key)

\* the standings extracted from all children, in child order
RECURSIVE ExtractChildren(_, _)
ExtractChildren(children, league_key) ==
    IF Len(children) = 0 THEN <<>>
    ELSE ExtractEntries(Get(Get(Head(children), "standings", EmptyDict), "entries", <<>>),
                        league_key)
         \o ExtractChildren(Tail(children), league_key)

\* list.sort(key=win_percentage, reverse=True): stable, descending
InsertDesc(sorted, x) ==
    LET k == Cardinality({i \in 1..Len(sorted) :
                            FracGeq(sorted[i].win_percentage, x.win_percentage)})
    IN  SubSeq(sorted, 1, k) \o <<x>> \o SubSeq(sorted, k + 1, Len(sorted))

RECURSIVE SortFrom(_, _, _)
SortFrom(sorted, list, i) ==
    IF i > Len(list) THEN sorted
    ELSE SortFrom(InsertDesc(sorted, list[i]), list, i + 1)

SortByWinPercentage(list) == SortFrom(<<>>, list, 1)

\* mutant: the flag is never set
CombinedNever(children) == FALSE

\* combined_from_multiple_sources = len(children) > 1
CombinedFromMultipleSources(children) == Len(children) > 1

\* the shape probes of _fetch_standings_data
IsDirect(data) == "standings" \in DOMAIN data /\ "entries" \in DOMAIN data.standings
IsSectioned(data) == ~IsDirect(data) /\ "children" \in DOMAIN data

\* the extracted list in its final (sorted or trusted) order
FinalStandings(data, league_key) ==
    IF IsDirect(data) THEN ExtractEntries(data.standings.entries, league_key)
    ELSE LET children == Get(data, "children", <<>>)
             standings == ExtractChildren(children, league_key)
         IN  IF CombinedFromMultipleSources(children)
             THEN SortByWinPercentage(standings)
             ELSE standings

\* mutant: season is sent whether configured or not
StandingsParamsWithSeason(league_config) ==
    [level |-> Get(league_config, "level", 1),
     sort |-> Get(league_config, "sort", DefaultSort),
     season |-> Get(league_config, "season", None)]

\* params of the standings request
StandingsParams(league_config) ==
    LET params == [level |-> Get(league_config, "level", 1),
                   sort |-> Get(league_config, "sort", DefaultSort)]
    IN  IF "season" \in DOMAIN league_config /\ Truthy(Get(league_config, "season", None))
        THEN params @@ [season |-> league_config.season]
        ELSE params

\* the payload written by _fetch_standings_data
StandingsCacheData(top_teams, league_key, params) ==
    LET cache_data == [standings |-> top_teams, league |-> league_key,
                       level |-> params.level]
    IN  IF "season" \in DOMAIN params
        THEN cache_data @@ [season |-> params.season]
        ELSE cache_data

\* _fetch_standings_data after the cache miss
StandingsFresh(league_config, c, up) ==
    LET league_key == league_config.league
        cache_key == StandingsCacheKey(league_key)
        params == StandingsParams(league_config)
    IN  IF Failed(up) THEN ErrorOutcome(cache_key, c, params)
        ELSE IF ~IsDirect(up.data) /\ ~IsSectioned(up.data)
             THEN EmptyOutcome(cache_key, c, params)
        ELSE LET standings == FinalStandings(up.data, league_key) IN
        IF Len(standings) = 0 THEN EmptyOutcome(cache_key, c, params)
        ELSE LET top_teams == Prefix(standings, Get(league_config, "top_teams", 10))
             IN  Outcome("fetched", standings, top_teams,
                         SaveCache(c, cache_key,
                                   StandingsCacheData(top_teams, league_key, params)),
                         1, 1, params)

FetchStandingsData(league_config, c, up) ==
    LET cache_key == StandingsCacheKey(league_config.league)
    IN  IF Cached(c, cache_key)
        THEN HitOutcome(c, cache_key)
        ELSE StandingsFresh(league_config, c, up)

(***************************************************************************)
(* Strategy: teams endpoint plus one record fetch per team.                *)
(***************************************************************************)
\* the value of the last stat named `name`, else 0
RECURSIVE StatNamed(_, _, _, _)
StatNamed(stats, name, i, found) ==
    IF i > Len(stats) THEN found
    ELSE StatNamed(stats, name, i + 1,
                   IF Get(stats[i], "name", None) = name
                   THEN Get(stats[i], "value", 0) ELSE found)

\* what a nested record fetch reports: <<record>> or <<>> for None
RecordOutcome(record, c, http, counted) ==
    [record |-> record, cache |-> c, http |-> http, counted |-> counted]

\* mutant: a failed record fetch yields an all-zero record
RecordErrorZero(c) == RecordOutcome(<<Rec(0, 0, 0, Zero)>>, c, 1, 0)

\* `except Exception: return None` of _fetch_team_record
RecordError(c) == RecordOutcome(<<>>, c, 1, 0)

\* _fetch_team_record; up is the answer of the team's endpoint
FetchTeamRecord(team_abbr, league_config, c, up) ==
    LET league == league_config.league
        cache_key == TeamRecordCacheKey(league, team_abbr)
    IN  IF Cached(c, cache_key)
        THEN RecordOutcome(<<c[cache_key].record>>, c, 0, 0)
        ELSE IF Failed(up) THEN RecordError(c)
        ELSE LET team_data == Get(up.data, "team", EmptyDict)
                 stats == Get(team_data, "stats", <<>>)
                 wins == StatNamed(stats, "wins", 1, 0)
                 losses == StatNamed(stats, "losses", 1, 0)
                 ties == StatNamed(stats, "ties", 1, 0)
                 record == Rec(wins, losses, ties, WinPct(wins, wins + losses + ties))
                 cache_data == [record |-> record, team |-> team_abbr, league |-> league]
             IN  RecordOutcome(<<record>>, SaveCache(c, cache_key, cache_data), 1, 1)

\* the loop over the roster: acc holds the standings so far, the cache, and
\* the requests and increments so far; records maps an abbreviation to the
\* answer of that team's endpoint
RECURSIVE TeamsLoop(_, _, _, _, _)
TeamsLoop(teams, i, league_config, records, acc) ==
    IF i > Len(teams) THEN acc
    ELSE LET team == Get(teams[i], "team", EmptyDict)
             team_abbr == Get(team, "abbreviation", None)
         IN  IF ~Truthy(team_abbr)
             THEN TeamsLoop(teams, i + 1, league_config, records, acc)
             ELSE LET got == FetchTeamRecord(team_abbr, league_config, acc.cache,
                                             records[team_abbr])
                      standing ==
                          IF Len(got.record) = 0 THEN <<>>
                          ELSE LET team_record == got.record[1]
                               IN  <<[name |-> Get(team, "name", "Unknown"),
                                      abbreviation |-> team_abbr,
                                      id |-> Get(team, "id", None),
                                      wins |-> Get(team_record, "wins", 0),
                                      losses |-> Get(team_record, "losses", 0),
                                      ties |-> Get(team_record, "ties", 0),
                                      win_percentage |->
                                          Get(team_record, "win_percentage", Zero)]>>
                  IN  TeamsLoop(teams, i + 1, league_config, records,
                                [standings |-> acc.standings \o standing,
                                 cache |-> got.cache,
                                 http |-> acc.http + got.http,
                                 counted |-> acc.counted + got.counted])

\* the teams of the roster document, or <<>> when it has no sports / leagues
RosterHasTeams(data) ==
    LET sports == Get(data, "sports", <<>>)
    IN  Len(sports) > 0 /\ Len(Get(sports[1], "leagues", <<>>)) > 0

RosterTeams(data) == Get(data.sports[1].leagues[1], "teams", <<>>)

\* _fetch_teams_data after the cache miss
TeamsFresh(league_config, c, up) ==
    LET league_key == league_config.league
        cache_key == LeagueCacheKey(league_key)
    IN  IF Failed(up.roster) THEN ErrorOutcome(cache_key, c, EmptyDict)
        ELSE IF ~RosterHasTeams(up.roster.data)
             THEN EmptyOutcome(cache_key, c, EmptyDict)
        ELSE LET done == TeamsLoop(RosterTeams(up.roster.data), 1, league_config,
                                   up.records,
                                   [standings |-> <<>>, cache |-> c, http |-> 1,
                                    counted |-> 1])
                 standings == SortByWinPercentage(done.standings)
                 top_teams == Prefix(standings, Get(league_config, "top_teams", 10))
                 cache_data == [standings |-> top_teams, league |-> league_key]
             IN  Outcome("fetched", standings, top_teams,
                         SaveCache(done.cache, cache_key, cache_data),
                         done.http, done.counted, EmptyDict)

FetchTeamsData(league_config, c, up) ==
    LET cache_key == LeagueCacheKey(league_config.league)
    IN  IF Cached(c, cache_key)
        THEN HitOutcome(c, cache_key)
        ELSE TeamsFresh(league_config, c, up)

(***************************************************************************)
(* fetch_standings: the cache probe under the unsuffixed key, then the     *)
(* dispatch on the league slug.                                            *)
(***************************************************************************)
RankingsLeagues == {"college-football", "mens-college-hockey",
                    "mens-college-basketball", "womens-college-basketball"}
StandingsLeagues == {"nfl", "mlb", "nhl", "college-baseball"}

Strategy(league_key) ==
    IF league_key \in RankingsLeagues THEN "rankings"
    ELSE IF league_key \in StandingsLeagues THEN "standings"
    ELSE "teams"

\* mutant: hockey is not special-cased and falls to the standings endpoint
FetchStandingsCallHockeyStandings(league_config, c, up) ==
    LET league_key == league_config.league
        cache_key == LeagueCacheKey(league_key)
    IN  IF Cached(c, cache_key)
        THEN HitOutcome(c, cache_key)
        ELSE IF league_key \in {"college-football", "mens-college-basketball",
                                "womens-college-basketball"}
             THEN FetchRankings(league_config, c, up)
        ELSE IF league_key \in {"nfl", "mlb", "nhl", "college-baseball", "mens-college-hockey"}
             THEN FetchStandingsData(league_config, c, up)
        ELSE FetchTeamsData(league_config, c, up)

\* the fields a fetch subscripts in league_config: league_config['league']
\* everywhere, ['sport'] in the basketball rankings and the team record
\* fetch, ['standings_url'], ['teams_url']
RequiredFields(league_key) ==
    {"league"}
    \cup (IF league_key \in {"mens-college-basketball", "womens-college-basketball"}
          THEN {"sport"} ELSE {})
    \cup (IF Strategy(league_key) = "standings" THEN {"standings_url"} ELSE {})
    \cup (IF Strategy(league_key) = "teams" THEN {"teams_url", "sport"} ELSE {})

FetchStandingsCall(league_config, c, up) ==
    LET league_key == league_config.league
        cache_key == LeagueCacheKey(league_key)
    IN  IF Cached(c, cache_key)
        THEN HitOutcome(c, cache_key)
        ELSE IF Strategy(league_key) = "rankings" THEN FetchRankings(league_config, c, up)
        ELSE IF Strategy(league_key) = "standings" THEN FetchStandingsData(league_config, c, up)
        ELSE FetchTeamsData(league_config, c, up)

(***************************************************************************)
(* Inputs: configurations and upstream answers.                            *)
(***************************************************************************)
MaxTopTeams == 2
MaxPolls == 2
MaxChildren == 2

\* sequences of at most n members of S
RECURSIVE SeqsUpTo(_, _)
SeqsUpTo(S, n) ==
    IF n = 0 THEN {<<>>}
    ELSE LET shorter == SeqsUpTo(S, n - 1)
         IN  shorter \cup {Append(q, x) : q \in {t \in shorter : Len(t) = n - 1}, x \in S}

\* the options a user sets for the one league a configuration enables:
\* top_teams absent or 0..MaxTopTeams, and for a standings league a season
SportOptionChoices(k) ==
    LET tops == {[enabled |-> TRUE]}
                \cup {[enabled |-> TRUE, top_teams |-> n] : n \in 0..MaxTopTeams}
    IN  IF "season" \in DOMAIN LeagueEntry(EmptyDict, k)
        THEN tops \cup {[enabled |-> TRUE, season |-> "2024"],
                        [enabled |-> TRUE, season |-> "2025", top_teams |-> 1]}
        ELSE tops

\* config['enabled_sports'] with exactly the league k enabled
UserConfigs ==
    {[j \in LeagueKeySet |-> IF j = k THEN o ELSE [enabled |-> FALSE]] :
        <<k, o>> \in UNION {{<<k2, o2>> : o2 \in SportOptionChoices(k2)} : k2 \in LeagueKeySet}}

\* ranked-team entries of a poll
RankA == [team |-> [name |-> "Alpha", id |-> "1", abbreviation |-> "A"],
          current |-> 1, recordSummary |-> <<"1", "-", "2">>]
RankB == [team |-> [name |-> "Beta", id |-> "2", abbreviation |-> "B"],
          current |-> 2, recordSummary |-> <<"2", "-", "1">>]
RankC == [team |-> [name |-> "Gamma", id |-> "3", abbreviation |-> "C"],
          current |-> 3, recordSummary |-> <<"1", "-", "0", "-", "1">>]

\* polls: the AP poll by name and type, a coaches poll, a poll that is "ap"
\* by its type alone, a poll that ranks nobody
CoachesPoll == <<"C", "o", "a", "c", "h", "e", "s", " ", "P", "o", "l", "l">>

Polls ==
    {[name |-> <<"A", "P", " ", "T", "o", "p", " ", "2", "5">>, type |-> <<"a", "p">>,
      ranks |-> <<RankA, RankB, RankC>>],
     [name |-> CoachesPoll, type |-> <<"u", "s", "a">>, ranks |-> <<RankB, RankA>>],
     [name |-> <<"M", "e", "d", "i", "a">>, type |-> <<"A", "P">>, ranks |-> <<RankC>>],
     [name |-> <<"P", "o", "w", "e", "r">>, type |-> <<"p", "w", "r">>, ranks |-> <<>>]}

RankingsAnswers ==
    {Failure(f) : f \in FailureKinds}
    \cup {Json(EmptyDict)}
    \cup {Json([rankings |-> polls]) : polls \in SeqsUpTo(Polls, MaxPolls)}

\* standings entries; the values are JSON numbers
Stat(type, n, d) == [type |-> type, value |-> <<n, d>>]

EntryA == [team |-> [displayName |-> "Alpha", id |-> "1", abbreviation |-> "A"],
           stats |-> <<Stat("wins", 1, 1), Stat("losses", 3, 1), Stat("winpercent", 1, 4)>>]
EntryB == [team |-> [displayName |-> "Beta", id |-> "2", abbreviation |-> "B"],
           stats |-> <<Stat("wins", 3, 1), Stat("losses", 1, 1), Stat("winpercent", 3, 4)>>]
EntryC == [team |-> [displayName |-> "Gamma", id |-> "3", abbreviation |-> "C"],
           stats |-> <<Stat("wins", 2, 1), Stat("losses", 1, 1), Stat("overtimelosses", 1, 1),
                       Stat("gamesplayed", 4, 1), Stat("winpercent", 1, 2)>>]
EntryNoTeam == [stats |-> <<Stat("wins", 4, 1), Stat("winpercent", 1, 1)>>]

EntryLists == {<<>>, <<EntryA, EntryB>>, <<EntryC>>, <<EntryNoTeam>>}

Entries(es) == [standings |-> [entries |-> es]]

StandingsAnswers ==
    {Failure(f) : f \in FailureKinds}
    \cup {Json(EmptyDict), Json([events |-> <<>>])}
    \cup {Json(Entries(es)) : es \in EntryLists}
    \cup {Json([children |-> ch]) :
            ch \in SeqsUpTo({Entries(es) : es \in EntryLists}, MaxChildren)}
    \cup {Json([standings |-> [name |-> "League"], children |-> <<Entries(<<EntryA, EntryB>>)>>]),
          Json(Entries(<<EntryC>>) @@ [children |-> <<Entries(<<EntryA>>), Entries(<<EntryB>>)>>])}

\* the roster and the per-team documents of the teams endpoints
Team(name, abbr, id) == [team |-> [name |-> name, abbreviation |-> abbr, id |-> id]]
TeamA == Team("Alpha", "A", "1")
TeamB == Team("Beta", "B", "2")
TeamC == Team("Gamma", "C", "3")
TeamNoAbbr == [team |-> [name |-> "Delta", id |-> "4"]]
TeamEmptyAbbr == Team("Epsilon", "", "5")

Rosters == {<<>>, <<TeamA, TeamB, TeamC>>, <<TeamB, TeamNoAbbr, TeamA>>,
            <<TeamEmptyAbbr, TeamC>>}

NamedStat(name, value) == [name |-> name, value |-> value]

TeamDocument(abbr) ==
    CASE abbr = "A" -> [team |-> [stats |-> <<NamedStat("wins", 1), NamedStat("losses", 3)>>]]
      [] abbr = "B" -> [team |-> [stats |-> <<NamedStat("wins", 3), NamedStat("losses", 1)>>]]
      [] abbr = "C" -> [team |-> [stats |-> <<NamedStat("wins", 2), NamedStat("losses", 1),
                                              NamedStat("ties", 1)>>]]

Abbrs == {"A", "B", "C"}

\* each team's endpoint answers with its document or fails
RecordAnswers ==
    {[a \in Abbrs |-> IF a \in ok THEN Json(TeamDocument(a)) ELSE Failure("HTTPError")] :
        ok \in SUBSET Abbrs}

RosterDocument(teams) == [sports |-> <<[leagues |-> <<[teams |-> teams]>>]>>]

TeamsAnswers ==
    {[roster |-> Failure(f), records |-> EmptyDict] : f \in FailureKinds}
    \cup {[roster |-> Json(EmptyDict), records |-> EmptyDict],
          [roster |-> Json([sports |-> <<[leagues |-> <<>>]>>]), records |-> EmptyDict]}
    \cup {[roster |-> Json(RosterDocument(teams)), records |-> recs] :
            teams \in Rosters, recs \in RecordAnswers}

Answers(league_key) ==
    IF Strategy(league_key) = "rankings" THEN RankingsAnswers
    ELSE IF Strategy(league_key) = "standings" THEN StandingsAnswers
    ELSE TeamsAnswers

\* no request was issued
NoAnswer == [none |-> TRUE]

(***************************************************************************)
(* Spec: fetch_standings on the enabled leagues, entries going stale.      *)
(***************************************************************************)
NoCall == [league |-> None, status |-> "none", upstream |-> NoAnswer,
           standings |-> <<>>, result |-> <<>>, saved |-> EmptyDict,
           http |-> 0, counted |-> 0, params |-> EmptyDict]

Idle == /\ record_summary = <<>>
        /\ parsed = <<>>

\* no configuration was handed to the plugin
NoConfig == /\ global_config = EmptyDict
            /\ attrs = EmptyDict
            /\ call = [op |-> "none", raised |-> FALSE]

\* no entry is under extraction
NoExtraction == /\ response = <<>>
                /\ extracted = <<>>

\* no update() or display() call was made
NoCycle == [op |-> "none", force |-> FALSE, status |-> "none", http |-> 0,
            fetched |-> <<>>, answers |-> EmptyDict, frame |-> "none",
            created |-> FALSE, observed |-> FALSE]

\* the plugin is not constructed
NoPlugin == /\ enabled = TRUE
            /\ update_interval = 1
            /\ dynamic_duration_enabled = FALSE
            /\ leaderboard_data = <<>>
            /\ last_update = 0
            /\ cached_image = <<>>
            /\ cycle_complete = FALSE
            /\ now = 0
            /\ cycle = NoCycle

Init == /\ Idle
        /\ NoConfig
        /\ NoExtraction
        /\ NoPlugin
        /\ enabled_sports \in UserConfigs
        /\ cache = EmptyDict
        /\ last = NoCall

\* a fetch_standings call needs the upstream
Misses(league_config, c) ==
    LET league_key == league_config.league
    IN  /\ ~Cached(c, LeagueCacheKey(league_key))
        /\ Strategy(league_key) = "rankings" => ~Cached(c, RankingsCacheKey(league_key))
        /\ Strategy(league_key) = "standings" => ~Cached(c, StandingsCacheKey(league_key))

\* the entries a call saved: key -> payload
Saved(before, after) ==
    [key \in {j \in DOMAIN after : j \notin DOMAIN before \/ after[j] # before[j]}
        |-> after[key]]

\* data_fetcher.fetch_standings(league_config) for the enabled league k
Call(k, up) ==
    \E out \in {FetchStandingsCall(LeagueEntry(enabled_sports, k), cache, up)} :
        /\ cache' = out.cache
        /\ last' = [league |-> k, status |-> out.status, upstream |-> up,
                    standings |-> out.standings, result |-> out.result,
                    saved |-> Saved(cache, out.cache),
                    http |-> out.http, counted |-> out.counted, params |-> out.params]
        /\ UNCHANGED <<parseVars, configVars, extractVars, pluginVars, enabled_sports>>

FetchStandings ==
    \E i \in 1..Len(get_enabled_leagues(enabled_sports)) :
        LET k == get_enabled_leagues(enabled_sports)[i]
            league_config == LeagueEntry(enabled_sports, k)
        IN  IF Misses(league_config, cache)
            THEN \E up \in Answers(league_config.league) : Call(k, up)
            ELSE Call(k, NoAnswer)

\* the cache gateway stops returning an entry (its freshness policy)
Expire ==
    \E key \in DOMAIN cache :
        /\ cache' = [k \in DOMAIN cache \ {key} |-> cache[k]]
        /\ UNCHANGED <<parseVars, configVars, extractVars, pluginVars, enabled_sports, last>>

Next == FetchStandings \/ Expire

Spec == Init /\ [][Next]_vars

(***************************************************************************)
(* SpecShared: the same calls against a cache gateway that other writers   *)
(* use too.  DataFetcher is handed the gateway (cache_manager) and owns    *)
(* none of its keys: at construction an entry may already sit under the    *)
(* unsuffixed key of the enabled league.                                   *)
(***************************************************************************)
\* an entry of another writer: a non-empty dict with a 'standings' list
ForeignEntry ==
    [standings |-> <<[name |-> "Foreign", id |-> "0", abbreviation |-> "F",
                      wins |-> 0, losses |-> 0, ties |-> 0, win_percentage |-> Zero,
                      record_summary |-> <<"0", "-", "0">>]>>,
     league |-> "foreign"]

InitShared ==
    /\ Idle
    /\ NoConfig
    /\ NoExtraction
    /\ NoPlugin
    /\ enabled_sports \in UserConfigs
    /\ last = NoCall
    /\ cache \in {EmptyDict}
                 \cup {SaveCache(EmptyDict,
                                 LeagueCacheKey(LeagueEntry(enabled_sports, k).league),
                                 ForeignEntry) :
                          k \in {j \in LeagueKeySet : LeagueEntry(enabled_sports, j).enabled}}

SpecShared == InitShared /\ [][Next]_vars

(***************************************************************************)
(* SpecParse: _parse_record on every string over Chars up to MaxLen.       *)
(***************************************************************************)
InitParse == /\ record_summary \in StringsUpTo(MaxLen)
             /\ parsed = <<>>
             /\ NoConfig
             /\ enabled_sports = EmptyDict
             /\ cache = EmptyDict
             /\ last = NoCall
             /\ NoExtraction
             /\ NoPlugin

Parse == /\ parsed = <<>>
         /\ parsed' = <<ParseRecord(record_summary)>>
         /\ UNCHANGED <<record_summary, enabled_sports, cache, last, extractVars, pluginVars,
                      configVars>>

NextParse == Parse

SpecParse == InitParse /\ [][NextParse]_vars

(***************************************************************************)
(* LeaderboardPlugin (src/manager.py): the update cycle and display().     *)
(* Log lines and the timestamps that rate-limit them are not modelled.     *)
(* The scroll helper is kept as the image it caches; whether the scroll    *)
(* has completed and whether a render succeeds are the environment's.      *)
(***************************************************************************)
MaxInterval == 2
MaxTicks == 2

\* time.time() at construction: further from the epoch than any interval
StartTime == MaxInterval + 1

\* one section of leaderboard_data
Section(league_key, league_config, standings) ==
    [league |-> league_key, league_config |-> league_config, teams |-> standings]

\* mutant: a section is appended whatever the fetch returned
AppendSectionAlways(data, section) == Append(data, section)

\* `if standings: self.leaderboard_data.append({...})`
AppendSection(data, section) ==
    IF section.teams # <<>> THEN Append(data, section) ELSE data

\* the start of the loop: `self.leaderboard_data = []`, the cache as it is
LoopStart(c) == [leaderboard_data |-> <<>>, http |-> 0, fetched |-> <<>>, cache |-> c]

\* the loop body once fetch_standings has returned out
LoopBody(acc, league_key, league_config, out) ==
    [leaderboard_data |-> AppendSection(acc.leaderboard_data,
                                        Section(league_key, league_config, out.result)),
     http |-> acc.http + out.http,
     fetched |-> Append(acc.fetched, league_key),
     cache |-> out.cache]

\* the loop body: `standings = self.data_fetcher.fetch_standings(league_config)`
\* and the append; up is what the upstream answers
FetchLeague(acc, league_key, league_config, up) ==
    LoopBody(acc, league_key, league_config,
             FetchStandingsCall(league_config, acc.cache, up))

\* mutant: the loop ends at the first league whose fetch returns nothing
RECURSIVE UpdateLoopStopsAtFailure(_, _, _, _, _)
UpdateLoopStopsAtFailure(enabled_leagues, i, es, ups, acc) ==
    IF i > Len(enabled_leagues) THEN acc
    ELSE LET next == FetchLeague(acc, enabled_leagues[i],
                                 LeagueEntry(es, enabled_leagues[i]),
                                 ups[enabled_leagues[i]])
         IN  IF next.leaderboard_data = acc.leaderboard_data THEN next
             ELSE UpdateLoopStopsAtFailure(enabled_leagues, i + 1, es, ups, next)

\* `for league_key in enabled_leagues:` of update(), from the i-th league on;
\* ups[k] is what the upstream answers to the fetch of league k
RECURSIVE UpdateLoop(_, _, _, _, _)
UpdateLoop(enabled_leagues, i, es, ups, acc) ==
    IF i > Len(enabled_leagues) THEN acc
    ELSE UpdateLoop(enabled_leagues, i + 1, es, ups,
                    FetchLeague(acc, enabled_leagues[i],
                                LeagueEntry(es, enabled_leagues[i]),
                                ups[enabled_leagues[i]]))

\* the plugin state update() reads and writes
PluginState == [leaderboard_data |-> leaderboard_data, last_update |-> last_update,
                cached_image |-> cached_image, cache |-> cache]

\* mutant: the time check is gone, every call runs the cycle
UpdateDueAlways(force, current_time, st, interval) == TRUE

\* `if not force and current_time - self.last_update < self.update_interval:
\* return` does not fire
UpdateDue(force, current_time, st, interval) ==
    force \/ current_time - st.last_update >= interval

\* the end of a cycle that ran the loop: `self.last_update = current_time`,
\* `self.scroll_helper.clear_cache()`
Completed(loop, current_time) ==
    [leaderboard_data |-> loop.leaderboard_data,
     last_update |-> current_time,
     cached_image |-> <<>>,
     cache |-> loop.cache,
     status |-> "completed", http |-> loop.http, fetched |-> loop.fetched]

\* update(force) at current_time: the state it leaves, whether the cycle was
\* skipped, returned early or completed, the requests it issued and the
\* leagues it fetched, in order
UpdateOutcome(force, current_time, es, interval, st, ups) ==
    IF ~UpdateDue(force, current_time, st, interval)
    THEN st @@ [status |-> "skipped", http |-> 0, fetched |-> <<>>]
    ELSE IF Len(get_enabled_leagues(es)) = 0
         THEN [st EXCEPT !.leaderboard_data = <<>>]
                @@ [status |-> "no_leagues", http |-> 0, fetched |-> <<>>]
         ELSE Completed(UpdateLoop(get_enabled_leagues(es), 1, es, ups, LoopStart(st.cache)),
                        current_time)

\* what a display() call that does not call update() reports of it
NoUpdate(st) == st @@ [status |-> "none", http |-> 0, fetched |-> <<>>]

\* display() from the fallback check on, upd being the state the empty-data
\* update left; render_ok: create_leaderboard_image returns an image,
\* scroll_complete: scroll_helper.is_scroll_complete()
Shown(upd, force_clear, dyn, cc, render_ok, scroll_complete) ==
    IF upd.leaderboard_data = <<>>
    THEN upd @@ [cycle_complete |-> cc, frame |-> "fallback",
                 created |-> FALSE, observed |-> FALSE]
    ELSE LET create == upd.cached_image = <<>> \/ force_clear
             image == IF create
                      THEN IF render_ok THEN <<upd.leaderboard_data>> ELSE <<>>
                      ELSE upd.cached_image
         IN  IF image = <<>>
             THEN [upd EXCEPT !.cached_image = <<>>]
                    @@ [cycle_complete |-> cc, frame |-> "fallback",
                        created |-> FALSE, observed |-> FALSE]
             ELSE [upd EXCEPT !.cached_image = image]
                    @@ [cycle_complete |->
                            IF dyn /\ scroll_complete THEN TRUE
                            ELSE IF create THEN FALSE ELSE cc,
                        frame |-> "scrolled",
                        created |-> create, observed |-> dyn /\ scroll_complete]

\* display(force_clear)
DisplayOutcome(force_clear, current_time, es, interval, st, on, dyn, cc, ups, render_ok, scroll_complete) ==
    IF ~on THEN NoUpdate(st) @@ [cycle_complete |-> cc, frame |-> "none",
                                 created |-> FALSE, observed |-> FALSE]
    ELSE Shown(IF st.leaderboard_data = <<>>
               THEN UpdateOutcome(TRUE, current_time, es, interval, st, ups)
               ELSE NoUpdate(st),
               force_clear, dyn, cc, render_ok, scroll_complete)

\* the leagues the plugin specification enables, and its configurations
PluginLeagues == {"nfl", "nba"}

PluginConfigs ==
    {[k \in LeagueKeySet |-> [enabled |-> k \in on]] : on \in SUBSET PluginLeagues}

\* what the upstream answers to the plugin's fetches
PluginAnswers(league_key) ==
    IF Strategy(league_key) = "rankings"
    THEN {Failure("HTTPError"),
          Json([rankings |-> <<[name |-> ApTop25, type |-> <<"a", "p">>,
                                ranks |-> <<RankA, RankB>>]>>])}
    ELSE IF Strategy(league_key) = "standings"
    THEN {Failure("Timeout"), Json(EmptyDict), Json(Entries(<<EntryA, EntryB>>))}
    ELSE {[roster |-> Failure("ConnectionError"), records |-> EmptyDict],
          [roster |-> Json(RosterDocument(<<TeamA>>)),
           records |-> [a \in Abbrs |-> Json(TeamDocument(a))]],
          [roster |-> Json(RosterDocument(<<TeamA>>)),
           records |-> [a \in Abbrs |-> Failure("HTTPError")]]}

\* what the upstream may answer to the fetch of one league: nothing is asked
\* of it when the cache serves the fetch
AnswerChoices(league_config, c) ==
    IF Misses(league_config, c) THEN PluginAnswers(league_config.league) ELSE {NoAnswer}

\* the answers to one update cycle: one per enabled league
CycleAnswers(es, c) ==
    LET enabled_leagues == get_enabled_leagues(es)
        keys == {enabled_leagues[i] : i \in 1..Len(enabled_leagues)}
    IN  {ups \in [keys -> UNION {AnswerChoices(LeagueEntry(es, k), c) : k \in keys}] :
            \A k \in keys : ups[k] \in AnswerChoices(LeagueEntry(es, k), c)}

\* no cycle runs, nothing is asked of the upstream
NoAnswers == {EmptyDict}

\* the state block of __init__
Constructed == [leaderboard_data |-> <<>>, last_update |-> 0,
                cached_image |-> <<>>, cache |-> EmptyDict]

\* __init__: the state block, then update(force=True) when a league is enabled
InitPlugin ==
    /\ Idle
    /\ NoConfig
    /\ NoExtraction
    /\ last = NoCall
    /\ enabled_sports \in PluginConfigs
    /\ enabled \in BOOLEAN
    /\ update_interval = MaxInterval
    /\ dynamic_duration_enabled \in BOOLEAN
    /\ now = StartTime
    /\ cycle_complete = FALSE
    /\ \E ups \in IF Len(get_enabled_leagues(enabled_sports)) > 0
                  THEN CycleAnswers(enabled_sports, EmptyDict) ELSE NoAnswers :
        \E out \in {IF Len(get_enabled_leagues(enabled_sports)) > 0
                    THEN UpdateOutcome(TRUE, StartTime, enabled_sports, update_interval,
                                       Constructed, ups)
                    ELSE NoUpdate(Constructed)} :
            /\ leaderboard_data = out.leaderboard_data
            /\ last_update = out.last_update
            /\ cached_image = out.cached_image
            /\ cache = out.cache
            /\ cycle = [op |-> "init", force |-> TRUE, status |-> out.status,
                        http |-> out.http, fetched |-> out.fetched, answers |-> ups,
                        frame |-> "none", created |-> FALSE, observed |-> FALSE]

\* the host calls update(force)
Update ==
    \E force \in BOOLEAN :
        \E ups \in IF UpdateDue(force, now, PluginState, update_interval)
                      /\ Len(get_enabled_leagues(enabled_sports)) > 0
                   THEN CycleAnswers(enabled_sports, cache) ELSE NoAnswers :
            \E out \in {UpdateOutcome(force, now, enabled_sports, update_interval,
                                      PluginState, ups)} :
                /\ leaderboard_data' = out.leaderboard_data
                /\ last_update' = out.last_update
                /\ cached_image' = out.cached_image
                /\ cache' = out.cache
                /\ cycle' = [op |-> "update", force |-> force, status |-> out.status,
                             http |-> out.http, fetched |-> out.fetched, answers |-> ups,
                             frame |-> "none", created |-> FALSE, observed |-> FALSE]
                /\ UNCHANGED <<parseVars, configVars, extractVars, enabled_sports, last, enabled,
                               update_interval, dynamic_duration_enabled, cycle_complete, now>>

\* the host calls display(force_clear)
Display ==
    \E force_clear \in BOOLEAN :
        \E ups \in IF enabled /\ leaderboard_data = <<>>
                      /\ Len(get_enabled_leagues(enabled_sports)) > 0
                   THEN CycleAnswers(enabled_sports, cache) ELSE NoAnswers :
            \E render_ok \in IF enabled THEN BOOLEAN ELSE {TRUE} :
                \E scroll_complete \in IF enabled /\ render_ok THEN BOOLEAN ELSE {FALSE} :
                    \E out \in {DisplayOutcome(force_clear, now, enabled_sports, update_interval,
                                               PluginState, enabled, dynamic_duration_enabled,
                                               cycle_complete, ups, render_ok, scroll_complete)} :
                        /\ leaderboard_data' = out.leaderboard_data
                        /\ last_update' = out.last_update
                        /\ cached_image' = out.cached_image
                        /\ cache' = out.cache
                        /\ cycle_complete' = out.cycle_complete
                        /\ cycle' = [op |-> "display", force |-> force_clear,
                                     status |-> out.status, http |-> out.http,
                                     fetched |-> out.fetched, answers |-> ups,
                                     frame |-> out.frame, created |-> out.created,
                                     observed |-> out.observed]
                        /\ UNCHANGED <<parseVars, configVars, extractVars, enabled_sports, last, enabled,
                                       update_interval, dynamic_duration_enabled, now>>

\* time passes
Tick ==
    /\ now < StartTime + MaxTicks
    /\ now' = now + 1
    /\ UNCHANGED <<parseVars, configVars, extractVars, enabled_sports, cache, last, enabled,
                   update_interval, dynamic_duration_enabled, leaderboard_data, last_update,
                   cached_image, cycle_complete, cycle>>

NextPlugin == Update \/ Display \/ Tick \/ Expire

SpecPlugin == InitPlugin /\ [][NextPlugin]_vars

(***************************************************************************)
(* SpecHost: the calls of the display controller into the plugin           *)
(* (update, display, reset_cycle_state, is_cycle_complete, cleanup) at one *)
(* instant, the cache gateway being able to raise on a read.               *)
(* fetch_standings reads the gateway outside any try (data_fetcher.py      *)
(* 50-56), so the exception ends the cycle in update()'s handler.          *)
(***************************************************************************)

\* mutant: the flag alone, whatever the dynamic duration setting
is_cycle_completeFlagOnly(dyn, cc) == cc

\* is_cycle_complete()
is_cycle_complete(dyn, cc) == IF ~dyn THEN TRUE ELSE cc

\* the end of a cycle whose loop was left by an exception: `except Exception
\* as e: self.logger.error(...)`; loop is the loop up to the raising fetch
Aborted(loop, st) ==
    [leaderboard_data |-> loop.leaderboard_data,
     last_update |-> st.last_update,
     cached_image |-> st.cached_image,
     cache |-> loop.cache,
     status |-> "aborted", http |-> loop.http, fetched |-> loop.fetched]

\* update(force) in which the fetch of the n-th enabled league raises
UpdateRaising(n, es, st, ups) ==
    Aborted(UpdateLoop(SubSeq(get_enabled_leagues(es), 1, n - 1), 1, es, ups,
                       LoopStart(st.cache)),
            st)

\* the calls in which a fetch can raise: the cycle runs and a league is enabled
Raisable(force, st) ==
    /\ UpdateDue(force, now, st, update_interval)
    /\ Len(get_enabled_leagues(enabled_sports)) > 0

\* the host calls update(force) and the gateway raises in the n-th fetch
UpdateAborted ==
    \E force \in BOOLEAN :
        /\ Raisable(force, PluginState)
        /\ \E n \in 1..Len(get_enabled_leagues(enabled_sports)) :
            \E ups \in CycleAnswers(enabled_sports, cache) :
                \E out \in {UpdateRaising(n, enabled_sports, PluginState, ups)} :
                    /\ leaderboard_data' = out.leaderboard_data
                    /\ last_update' = out.last_update
                    /\ cached_image' = out.cached_image
                    /\ cache' = out.cache
                    /\ cycle' = [op |-> "update", force |-> force, status |-> out.status,
                                 http |-> out.http, fetched |-> out.fetched,
                                 answers |-> ups, frame |-> "none",
                                 created |-> FALSE, observed |-> FALSE]
                    /\ UNCHANGED <<parseVars, configVars, extractVars, enabled_sports, last, enabled,
                                   update_interval, dynamic_duration_enabled,
                                   cycle_complete, now>>

\* the host calls display(force_clear) without data, and the gateway raises
\* in the n-th fetch of the forced update
DisplayAborted ==
    \E force_clear \in BOOLEAN :
        /\ enabled
        /\ leaderboard_data = <<>>
        /\ Raisable(TRUE, PluginState)
        /\ \E n \in 1..Len(get_enabled_leagues(enabled_sports)) :
            \E ups \in CycleAnswers(enabled_sports, cache) :
                \E render_ok \in BOOLEAN :
                    \E scroll_complete \in IF render_ok THEN BOOLEAN ELSE {FALSE} :
                        \E out \in {Shown(UpdateRaising(n, enabled_sports, PluginState, ups),
                                          force_clear, dynamic_duration_enabled,
                                          cycle_complete, render_ok, scroll_complete)} :
                            /\ leaderboard_data' = out.leaderboard_data
                            /\ last_update' = out.last_update
                            /\ cached_image' = out.cached_image
                            /\ cache' = out.cache
                            /\ cycle_complete' = out.cycle_complete
                            /\ cycle' = [op |-> "display", force |-> force_clear,
                                         status |-> out.status, http |-> out.http,
                                         fetched |-> out.fetched, answers |-> ups,
                                         frame |-> out.frame, created |-> out.created,
                                         observed |-> out.observed]
                            /\ UNCHANGED <<parseVars, configVars, extractVars, enabled_sports, last,
                                           enabled, update_interval,
                                           dynamic_duration_enabled, now>>

\* the host calls reset_cycle_state(): `self._cycle_complete = False`, the
\* scroll position back to the start
ResetCycleState ==
    /\ cycle_complete' = FALSE
    /\ cycle' = [NoCycle EXCEPT !.op = "reset_cycle_state"]
    /\ UNCHANGED <<parseVars, configVars, extractVars, enabled_sports, cache, last, enabled,
                   update_interval, dynamic_duration_enabled, leaderboard_data,
                   last_update, cached_image, now>>

\* the host calls cleanup(): `self.leaderboard_data = []`, clear_cache()
Cleanup ==
    /\ leaderboard_data' = <<>>
    /\ cached_image' = <<>>
    /\ cycle' = [NoCycle EXCEPT !.op = "cleanup"]
    /\ UNCHANGED <<parseVars, configVars, extractVars, enabled_sports, cache, last, enabled,
                   update_interval, dynamic_duration_enabled, last_update,
                   cycle_complete, now>>

NextHost ==
    Update \/ Display \/ UpdateAborted \/ DisplayAborted \/ ResetCycleState \/ Cleanup

SpecHost == InitPlugin /\ [][NextHost]_vars

(***************************************************************************)
(* SpecConfig: LeaderboardPlugin.__init__ on bounded global configurations *)
(* (the scroll settings and the dynamic duration settings), then the       *)
(* configuration calls of the host: get_info, set_scroll_delay and         *)
(* set_scroll_speed.                                                       *)
(* A configured value carries its Python kind: a number, float('inf'),     *)
(* float('nan'), a string that is no number, or None.  Seconds are whole   *)
(* numbers; buffer_ratio is in hundredths and the scroll settings are in   *)
(* thousandths, so that the floats of the code stay exact.                 *)
(***************************************************************************)
Num(n) == [kind |-> "number", n |-> n]
Inf == [kind |-> "inf"]
NaN == [kind |-> "nan"]
Text == [kind |-> "str"]
Null == [kind |-> "None"]
Dict(d) == [kind |-> "dict", d |-> d]
Bool(b) == [kind |-> "bool", b |-> b]

\* Python's max and min of two numbers
max(a, b) == IF b > a THEN b ELSE a
min(a, b) == IF b < a THEN b ELSE a

\* what a conversion hands back: the converted value, or the exception that
\* leaves it
Converted(n) == [raised |-> FALSE, value |-> n]
OverflowError == [raised |-> TRUE, value |-> 0]

\* _safe_int(value, default, min_value): int() raises TypeError on None,
\* ValueError on a string that is no number and on nan - both caught - and
\* OverflowError on an infinity, which `except (TypeError, ValueError)` lets by
safe_int(value, default, min_value) ==
    CASE value.kind = "number" -> Converted(max(min_value, value.n))
      [] value.kind = "inf" -> OverflowError
      [] OTHER -> Converted(default)

\* _safe_float(value, default, min_value, max_value): float() accepts inf and
\* nan; max(min_value, nan) is min_value, as no comparison with nan is true
safe_float(value, default, min_value, max_value) ==
    CASE value.kind = "number" -> Converted(min(max_value, max(min_value, value.n)))
      [] value.kind = "inf" -> Converted(max_value)
      [] value.kind = "nan" -> Converted(min_value)
      [] OTHER -> Converted(default)

\* `defaults` of _load_dynamic_duration_settings; raised: an exception left
\* the function
defaults == [enabled |-> TRUE, min_duration_seconds |-> 45,
             max_duration_seconds |-> 600, buffer_ratio |-> 10,
             controller_cap_seconds |-> 600, raised |-> FALSE]

\* `settings[key] = <conversion>`, unless an exception was raised before or
\* by the conversion
Assigned(settings, key, conversion) ==
    IF settings.raised \/ conversion.raised THEN [settings EXCEPT !.raised = TRUE]
    ELSE [settings EXCEPT ![key] = conversion.value]

\* `dynamic_value.get(key, dynamic_value.get(alias))`
GetAliased(d, key, alias) == Get(d, key, Get(d, alias, Null))

\* the branch `isinstance(dynamic_value, dict)`
FromDict(d) ==
    Assigned(
      Assigned(
        Assigned(
          Assigned([defaults EXCEPT !.enabled = Get(d, "enabled", defaults.enabled)],
                   "min_duration_seconds",
                   safe_int(GetAliased(d, "min_duration_seconds", "min_duration"),
                            defaults.min_duration_seconds, 10)),
          "max_duration_seconds",
          safe_int(GetAliased(d, "max_duration_seconds", "max_duration"),
                   defaults.max_duration_seconds, 30)),
        "buffer_ratio",
        safe_float(GetAliased(d, "buffer_ratio", "duration_buffer"),
                   defaults.buffer_ratio, 0, 100)),
      "controller_cap_seconds",
      safe_int(GetAliased(d, "controller_cap_seconds", "max_display_time"),
               defaults.controller_cap_seconds, 60))

\* the three branches on the type of dynamic_value; a value that is neither
\* a dict, a bool nor None is a non-empty string, which bool() makes True
FromValue(dynamic_value) ==
    CASE dynamic_value.kind = "dict" -> FromDict(dynamic_value.d)
      [] dynamic_value.kind = "bool" -> [defaults EXCEPT !.enabled = dynamic_value.b]
      [] dynamic_value.kind = "str" -> [defaults EXCEPT !.enabled = TRUE]
      [] OTHER -> defaults

\* one entry of legacy_overrides: `if legacy_value is not None:
\* settings[target_key] = converter(legacy_value, settings[target_key], ...)`
OverrideInt(settings, g, legacy_key, target_key, min_value) ==
    IF Get(g, legacy_key, Null).kind = "None" \/ settings.raised THEN settings
    ELSE Assigned(settings, target_key,
                  safe_int(g[legacy_key], settings[target_key], min_value))

OverrideFloat(settings, g, legacy_key, target_key, min_value, max_value) ==
    IF Get(g, legacy_key, Null).kind = "None" \/ settings.raised THEN settings
    ELSE Assigned(settings, target_key,
                  safe_float(g[legacy_key], settings[target_key], min_value, max_value))

\* `for legacy_key, (target_key, converter, kwargs) in legacy_overrides.items()`
LegacyOverrides(settings, g) ==
    OverrideInt(
      OverrideFloat(
        OverrideInt(
          OverrideInt(settings, g, "min_duration", "min_duration_seconds", 10),
          g, "max_duration", "max_duration_seconds", 30),
        g, "duration_buffer", "buffer_ratio", 0, 100),
      g, "max_display_time", "controller_cap_seconds", 60)

\* `if settings['max_duration_seconds'] < settings['min_duration_seconds']`
RaiseMax(settings) ==
    IF settings.max_duration_seconds < settings.min_duration_seconds
    THEN [settings EXCEPT !.max_duration_seconds = settings.min_duration_seconds]
    ELSE settings

\* `if settings['controller_cap_seconds'] < settings['max_duration_seconds']`
RaiseCap(settings) ==
    IF settings.controller_cap_seconds < settings.max_duration_seconds
    THEN [settings EXCEPT !.controller_cap_seconds = settings.max_duration_seconds]
    ELSE settings

\* _load_dynamic_duration_settings(self.global_config.get('dynamic_duration'))
load_dynamic_duration_settings(g) ==
    RaiseCap(RaiseMax(LegacyOverrides(FromValue(Get(g, "dynamic_duration", Null)), g)))

\* `display_config and ('scroll_speed' in display_config or 'scroll_delay' in
\* display_config)`
FrameBased(g) ==
    LET display_config == Get(g, "display", Dict(EmptyDict)).d
    IN  "scroll_speed" \in DOMAIN display_config \/ "scroll_delay" \in DOMAIN display_config

\* the scroll attributes __init__ assigns (lines 58-75); scroll_speed is
\* assigned in the display branch and in the legacy branch only
ScrollAttributes(g) ==
    IF FrameBased(g)
    THEN [scroll_speed |-> Get(g.display.d, "scroll_speed", Num(1000)),
          scroll_delay |-> Get(g.display.d, "scroll_delay", Num(10)),
          scroll_pixels_per_second |-> Null]
    ELSE IF Get(g, "scroll_pixels_per_second", Num(15000)).kind # "None"
    THEN [scroll_pixels_per_second |-> Get(g, "scroll_pixels_per_second", Num(15000)),
          scroll_delay |-> Get(g, "scroll_delay", Num(10))]
    ELSE [scroll_pixels_per_second |-> Null,
          scroll_delay |-> Get(g, "scroll_delay", Num(10)),
          scroll_speed |-> Get(g, "scroll_speed", Num(1000))]

\* the attributes of the plugin __init__ leaves; none when it raises
InitAttributes(g, settings) ==
    IF settings.raised THEN EmptyDict
    ELSE ScrollAttributes(g) @@ [dynamic_duration_settings |-> settings]

\* the values a duration setting is configured with
DurationPool == {Num(5), Num(700), Inf, NaN, Text, Null}

\* the keys of the dynamic_duration object and the legacy keys of global
DurationKeys ==
    {<<"dynamic_duration", k>> :
        k \in {"min_duration_seconds", "min_duration", "max_duration_seconds",
               "max_duration", "buffer_ratio", "duration_buffer",
               "controller_cap_seconds", "max_display_time"}}
LegacyKeys ==
    {<<"global", k>> : k \in {"min_duration", "max_duration", "duration_buffer",
                              "max_display_time"}}

\* a configuration sets at most MaxOverrides of these keys
MaxOverrides == 2

\* the entries of f under the keys of one object
Under(f, object) ==
    [k \in {key[2] : key \in {q \in DOMAIN f : q[1] = object}} |-> f[<<object, k>>]]

\* what global.dynamic_duration is, the keys of f under it being given: an
\* object with them and with or without `enabled`, or - no key being under
\* it - absent, a bool or a string
DynamicValues(f) ==
    {[dynamic_duration |-> Dict(Under(f, "dynamic_duration") @@ e)] :
        e \in {EmptyDict} \cup {[enabled |-> b] : b \in BOOLEAN}}
    \cup (IF \A q \in DOMAIN f : q[1] = "global"
          THEN {EmptyDict} \cup {[dynamic_duration |-> v] :
                                    v \in {Bool(TRUE), Bool(FALSE), Text}}
          ELSE {})

\* the sets of at most MaxOverrides duration keys
OverrideSets ==
    {S \in SUBSET (DurationKeys \cup LegacyKeys) : Cardinality(S) <= MaxOverrides}

\* global configurations that set the scroll keys and leave the dynamic
\* duration to its defaults
ScrollConfigs ==
    {display @@ pps @@ speed @@ delay :
        display \in {EmptyDict} \cup
                    {[display |-> Dict(d)] :
                        d \in {EmptyDict, [scroll_speed |-> Num(2000)], [scroll_delay |-> Num(20)],
                               [scroll_speed |-> Num(2000), scroll_delay |-> Num(20)]}},
        pps \in {EmptyDict, [scroll_pixels_per_second |-> Num(20000)],
                 [scroll_pixels_per_second |-> Null]},
        speed \in {EmptyDict, [scroll_speed |-> Num(2000)]},
        delay \in {EmptyDict, [scroll_delay |-> Num(20)]}}

\* __init__(plugin_id, config, ...), no league enabled; config['global'] sets
\* the scroll keys and leaves the dynamic duration to its defaults, or sets
\* the dynamic duration and leaves the scroll settings to theirs
InitConfig ==
    /\ Idle
    /\ NoExtraction
    /\ NoPlugin
    /\ enabled_sports = EmptyDict
    /\ cache = EmptyDict
    /\ last = NoCall
    /\ \/ global_config \in ScrollConfigs
       \/ \E K \in OverrideSets :
            \E f \in [K -> DurationPool] :
                \E dynamic \in DynamicValues(f) :
                    global_config = Under(f, "global") @@ dynamic
    /\ \E settings \in {load_dynamic_duration_settings(global_config)} :
        /\ attrs = InitAttributes(global_config, settings)
        /\ call = [op |-> "init", raised |-> settings.raised]

\* the plugin object exists
Built == attrs # EmptyDict

\* the host calls get_info(): `'scroll_speed': self.scroll_speed`
GetInfo ==
    /\ Built
    /\ call' = [op |-> "get_info", raised |-> "scroll_speed" \notin DOMAIN attrs]
    /\ UNCHANGED <<parseVars, extractVars, pluginVars, enabled_sports, cache, last,
                   global_config, attrs>>

\* what the host passes to set_scroll_delay and set_scroll_speed
Delays == {0, 20}
Speeds == {9000}

\* the host calls set_scroll_delay(delay): the clamped delay is assigned,
\* then both branches read self.scroll_speed
SetScrollDelay ==
    \E delay \in Delays :
        /\ Built
        /\ attrs' = [scroll_delay |-> Num(max(1, min(100, delay)))] @@ attrs
        /\ call' = [op |-> "set_scroll_delay", raised |-> "scroll_speed" \notin DOMAIN attrs]
        /\ UNCHANGED <<parseVars, extractVars, pluginVars, enabled_sports, cache, last,
                       global_config>>

\* the host calls set_scroll_speed(speed): the clamped speed is assigned
SetScrollSpeed ==
    \E speed \in Speeds :
        /\ Built
        /\ attrs' = [scroll_speed |-> Num(max(500, min(5000, speed)))] @@ attrs
        /\ call' = [op |-> "set_scroll_speed", raised |-> FALSE]
        /\ UNCHANGED <<parseVars, extractVars, pluginVars, enabled_sports, cache, last,
                       global_config>>

NextConfig == GetInfo \/ SetScrollDelay \/ SetScrollSpeed

SpecConfig == InitConfig /\ [][NextConfig]_vars

(***************************************************************************)
(* SpecRegistry: LeagueConfig built from enabled_sports objects that       *)
(* configure some of the registry keys, or none, then queried by the host. *)
(***************************************************************************)
\* get_league_config(league_key): `self.league_configs.get(league_key)`, the
\* entry in a one-element tuple, the empty tuple for None
get_league_config(es, league_key) ==
    IF league_key \in DOMAIN league_configs(es)
    THEN <<league_configs(es)[league_key]>> ELSE <<>>

\* is_league_enabled(league_key)
is_league_enabled(es, league_key) ==
    /\ get_league_config(es, league_key) # <<>>
    /\ Get(get_league_config(es, league_key)[1], "enabled", FALSE)

\* what enabled_sports holds for one league: nothing, the flag, or other
\* options without the flag
LeagueOptions == {[enabled |-> TRUE], [enabled |-> FALSE], [top_teams |-> 5]}

\* an enabled_sports object configures at most MaxConfigured registry keys
MaxConfigured == 2

RegistryConfigs ==
    UNION {[K -> LeagueOptions] :
              K \in {S \in SUBSET LeagueKeySet : Cardinality(S) <= MaxConfigured}}

\* the keys the host asks for: the registry's and one it does not have
UnknownKey == "xfl"
QueryKeys == LeagueKeySet \cup {UnknownKey}

\* LeagueConfig(config)
InitRegistry ==
    /\ Idle
    /\ NoConfig
    /\ NoExtraction
    /\ NoPlugin
    /\ cache = EmptyDict
    /\ last = NoCall
    /\ enabled_sports \in RegistryConfigs

\* the host calls get_enabled_leagues()
GetEnabledLeagues ==
    /\ call' = [op |-> "get_enabled_leagues", raised |-> FALSE, key |-> None,
                result |-> get_enabled_leagues(enabled_sports)]
    /\ UNCHANGED <<parseVars, extractVars, pluginVars, enabled_sports, cache, last,
                   global_config, attrs>>

\* the host calls get_league_config(league_key)
GetLeagueConfig ==
    \E league_key \in QueryKeys :
        /\ call' = [op |-> "get_league_config", raised |-> FALSE, key |-> league_key,
                    result |-> get_league_config(enabled_sports, league_key)]
        /\ UNCHANGED <<parseVars, extractVars, pluginVars, enabled_sports, cache, last,
                       global_config, attrs>>

\* the host calls is_league_enabled(league_key)
IsLeagueEnabled ==
    \E league_key \in QueryKeys :
        /\ call' = [op |-> "is_league_enabled", raised |-> FALSE, key |-> league_key,
                    result |-> is_league_enabled(enabled_sports, league_key)]
        /\ UNCHANGED <<parseVars, extractVars, pluginVars, enabled_sports, cache, last,
                       global_config, attrs>>

NextRegistry == GetEnabledLeagues \/ GetLeagueConfig \/ IsLeagueEnabled

SpecRegistry == InitRegistry /\ [][NextRegistry]_vars

(***************************************************************************)
(* Claims about _parse_record (SpecParse).                                 *)
(***************************************************************************)
\* "W-L" or "W-L-T" with non-negative integers
WellFormedRecord(s) ==
    LET parts == Split(s)
    IN  Len(parts) \in {2, 3} /\ \A i \in 1..Len(parts) : IsInt(parts[i])

\* C1: a well-formed "W-L" / "W-L-T" string parses to exactly (W, L, T,
\* W/(W+L+T)), T = 0 for the two-part form and the percentage 0 when no game
\* was played; every other string parses to (0, 0, 0, 0).
C1_ParseRecordContract ==
    parsed # <<>> =>
        LET parts == Split(record_summary)
            W == IntOf(parts[1])
            L == IntOf(parts[2])
            T == IF Len(parts) = 3 THEN IntOf(parts[3]) ELSE 0
        IN  IF WellFormedRecord(record_summary)
            THEN parsed[1] = Rec(W, L, T, IF W + L + T = 0 THEN Zero ELSE Frac(W, W + L + T))
            ELSE parsed[1] = Rec(0, 0, 0, Zero)

(***************************************************************************)
(* Claims about fetch_standings (Spec).                                    *)
(***************************************************************************)
Called == last.status # "none"

\* the registry entry and the slug of the league of the last call
LastConfig == LeagueEntry(enabled_sports, last.league)
LastSlug == LastConfig.league
LastStrategy == Strategy(LastSlug)

\* the answer to the league-level request of a call
LeagueAnswer(up) == IF "roster" \in DOMAIN up THEN up.roster ELSE up

\* the league-level request of the last call errored, timed out, returned
\* non-2xx or returned malformed JSON
UpstreamFailed == Called /\ Failed(LeagueAnswer(last.upstream))

\* the keys under which a league's list is cached
LeagueLevelKeys(league_key) ==
    {LeagueCacheKey(league_key), RankingsCacheKey(league_key), StandingsCacheKey(league_key)}

\* the key the strategy of league_key reads and writes
StrategyKey(league_key) ==
    IF Strategy(league_key) = "rankings" THEN RankingsCacheKey(league_key)
    ELSE IF Strategy(league_key) = "standings" THEN StandingsCacheKey(league_key)
    ELSE LeagueCacheKey(league_key)

\* non-increasing win_percentage
SortedDesc(list) ==
    \A i, j \in 1..Len(list) :
        i < j => FracGeq(list[i].win_percentage, list[j].win_percentage)

\* C2: when the league's upstream call fails (error, timeout, non-2xx,
\* malformed JSON), in each strategy, fetch_standings returns an empty list and
\* writes no cache entry, no list is cached for the league afterwards, and the
\* next fetch_standings call for the league issues the request again.
C2_FailureEmptyAndUncached ==
    /\ [](UpstreamFailed =>
            /\ last.result = <<>>
            /\ DOMAIN last.saved = {}
            /\ LeagueLevelKeys(LastSlug) \cap DOMAIN cache = {})
    /\ [][(UpstreamFailed /\ last'.league = last.league) => last'.http >= 1]_vars

C2_Witness ==
    /\ UpstreamFailed
    /\ LastStrategy = "teams"
    /\ last.upstream.roster = Failure("Timeout")
    /\ DOMAIN cache # {}

\* C3: a call that hits the entry a successful fetch wrote returns the very
\* list that fetch returned: same records, same order, same length; it sends
\* no request and leaves the cache as it is.
C3_CacheHitIdempotent ==
    [][(last.status = "fetched" /\ last'.status = "hit" /\ last'.league = last.league) =>
            /\ last'.result = last.result
            /\ last'.http = 0
            /\ cache' = cache]_vars

C3_Witness ==
    /\ last.status = "hit"
    /\ Len(last.result) = 2
    /\ ~SortedDesc(last.result)

\* a fresh rankings fetch that selected a poll
RankingsFetched == last.status = "fetched" /\ LastStrategy = "rankings"

\* the polls of the response of the last call
LastPolls == last.upstream.data.rankings

\* the poll is the AP Top 25: its lower-cased name holds "ap" and "top", or
\* its type is "ap" in any case
NamedOrTypedAp(poll) ==
    \/ /\ \E i \in 1..(Len(poll.name) - 1) :
            LowerChar(poll.name[i]) = "a" /\ LowerChar(poll.name[i + 1]) = "p"
       /\ \E i \in 1..(Len(poll.name) - 2) :
            /\ LowerChar(poll.name[i]) = "t"
            /\ LowerChar(poll.name[i + 1]) = "o"
            /\ LowerChar(poll.name[i + 2]) = "p"
    \/ Len(poll.type) = 2 /\ LowerChar(poll.type[1]) = "a" /\ LowerChar(poll.type[2]) = "p"

\* the position of the first AP poll, or 1 when the response has none
FirstApElseFirst(polls) ==
    IF \E i \in 1..Len(polls) : NamedOrTypedAp(polls[i])
    THEN CHOOSE i \in 1..Len(polls) :
            NamedOrTypedAp(polls[i]) /\ \A j \in 1..(i - 1) : ~NamedOrTypedAp(polls[j])
    ELSE 1

\* the last call selected the poll at position i of its response: it cached
\* the poll's name and returned the head of the poll's ranks under that name
SelectedPoll(i) ==
    LET poll == LastPolls[i]
        payload == last.saved[RankingsCacheKey(LastSlug)]
    IN  /\ payload.ranking_name = poll.name
        /\ Len(last.standings) = Len(poll.ranks)
        /\ \A j \in 1..Len(last.standings) :
            /\ last.standings[j].abbreviation = poll.ranks[j].team.abbreviation
            /\ last.standings[j].ranking_name = poll.name

StandingsFetched == last.status = "fetched" /\ LastStrategy = "standings"

\* the children of a sectioned response that hold at least one entry
Contributing(data) ==
    {i \in 1..Len(data.children) : Len(data.children[i].standings.entries) > 0}

\* the entries of the response in upstream order, children flattened
RECURSIVE Flatten(_)
Flatten(children) ==
    IF Len(children) = 0 THEN <<>>
    ELSE Head(children).standings.entries \o Flatten(Tail(children))

UpstreamEntries(data) ==
    IF IsDirect(data) THEN data.standings.entries ELSE Flatten(data.children)

\* the abbreviations of the entries that have a team, in upstream order
RECURSIVE TeamAbbrs(_)
TeamAbbrs(entries) ==
    IF Len(entries) = 0 THEN <<>>
    ELSE (IF "team" \in DOMAIN Head(entries)
          THEN <<Head(entries).team.abbreviation>> ELSE <<>>) \o TeamAbbrs(Tail(entries))

AbbrsOf(list) == [i \in 1..Len(list) |-> list[i].abbreviation]

\* C5: a sectioned response in which more than one child contributes entries
\* yields a list sorted by win_percentage, non-increasing; the list returned
\* and the list cached.
C5_SectionedResorted ==
    (StandingsFetched /\ IsSectioned(last.upstream.data)
        /\ Cardinality(Contributing(last.upstream.data)) > 1) =>
            /\ SortedDesc(last.standings)
            /\ SortedDesc(last.result)
            /\ last.saved[StandingsCacheKey(LastSlug)].standings = last.result

\* two children whose entries, flattened, are not sorted
C5_Witness ==
    /\ StandingsFetched
    /\ IsSectioned(last.upstream.data)
    /\ Cardinality(Contributing(last.upstream.data)) = 2
    /\ TeamAbbrs(UpstreamEntries(last.upstream.data)) = <<"A", "B", "C">>
    /\ AbbrsOf(last.result) = <<"B", "C", "A">>

\* C6: entries of the direct shape, or of a sectioned response in which
\* exactly one child contributes entries (the other children being empty),
\* keep their upstream order: the list before truncation is the extracted
\* entries in upstream order, never re-sorted.
C6_SingleSourceTrusted ==
    (StandingsFetched
        /\ (IsSectioned(last.upstream.data) =>
                Cardinality(Contributing(last.upstream.data)) = 1)) =>
            AbbrsOf(last.standings) = TeamAbbrs(UpstreamEntries(last.upstream.data))

\* C7: a fresh fetch that extracts m records returns and caches the first
\* min(m, top_n) of them in their final order, in every strategy; a fetch
\* that caches nothing returns the empty list; and no list fetch_standings
\* returns is longer than top_n.
C7_Truncation ==
    Called =>
        LET n == LastConfig.top_teams
            m == Len(last.standings)
            kept == IF m < n THEN m ELSE n
        IN  /\ Len(last.result) <= n
            /\ last.status = "fetched" =>
                /\ Len(last.result) = kept
                /\ \A i \in 1..kept : last.result[i] = last.standings[i]
                /\ last.saved[StrategyKey(LastSlug)].standings = last.result
            /\ last.status \in {"error", "empty"} => last.result = <<>>

\* three records extracted, top_n = 2
C7_Witness ==
    /\ last.status = "fetched"
    /\ LastStrategy = "teams"
    /\ Len(last.standings) = 3
    /\ LastConfig.top_teams = 2
    /\ Len(last.result) = 2

\* the season the configuration sets for the league of the last call
SeasonConfigured == "season" \in DOMAIN SportOptions(enabled_sports, last.league)
ConfiguredSeason == SportOptions(enabled_sports, last.league).season

\* d carries season = the configured one, or no season when none is configured
CarriesSeason(d) ==
    IF SeasonConfigured
    THEN "season" \in DOMAIN d /\ d.season = ConfiguredSeason
    ELSE "season" \notin DOMAIN d

\* C8: the request of a standings league carries level and sort; it carries
\* season = s when the configuration sets the season s and no season
\* parameter when it sets none, and so does the payload the fetch caches.
C8_SeasonOmission ==
    (Called /\ LastStrategy = "standings" /\ last.http >= 1) =>
        /\ {"level", "sort"} \subseteq DOMAIN last.params
        /\ CarriesSeason(last.params)
        /\ \A key \in DOMAIN last.saved : CarriesSeason(last.saved[key])

C8_Witness ==
    /\ StandingsFetched
    /\ SeasonConfigured
    /\ last.params.season = "2024"
    /\ last.saved[StandingsCacheKey(LastSlug)].season = "2024"

\* the roster of a teams answer
RosterOf(up) == RosterTeams(up.roster.data)

\* the team has a non-empty abbreviation
HasAbbr(team_data) ==
    /\ "abbreviation" \in DOMAIN team_data.team
    /\ team_data.team.abbreviation \notin {"", None}

\* the abbreviations of the roster teams whose record is at hand: cached in c,
\* or answered by the team's endpoint
WithRecord(up, league_key, c) ==
    {RosterOf(up)[i].team.abbreviation : i \in
        {j \in 1..Len(RosterOf(up)) :
            /\ HasAbbr(RosterOf(up)[j])
            /\ \/ Cached(c, TeamRecordCacheKey(league_key, RosterOf(up)[j].team.abbreviation))
               \/ ~Failed(up.records[RosterOf(up)[j].team.abbreviation])}}

\* C9: a fresh teams fetch collects exactly the roster teams that have a
\* non-empty abbreviation and whose record fetch succeeded, sorts them by
\* win_percentage, non-increasing, and only then truncates to top_n.
C9_PartialFailure ==
    [][(/\ last'.status = "fetched"
        /\ Strategy(LeagueEntry(enabled_sports, last'.league).league) = "teams"
        /\ ~Cached(cache, LeagueCacheKey(LeagueEntry(enabled_sports, last'.league).league))
        /\ Cached(cache', LeagueCacheKey(LeagueEntry(enabled_sports, last'.league).league))) =>
            LET league_config == LeagueEntry(enabled_sports, last'.league)
                with == WithRecord(last'.upstream, league_config.league, cache)
                kept == IF Cardinality(with) < league_config.top_teams
                        THEN Cardinality(with) ELSE league_config.top_teams
            IN  /\ {last'.standings[i].abbreviation : i \in 1..Len(last'.standings)} = with
                /\ Len(last'.standings) = Cardinality(with)
                /\ SortedDesc(last'.standings)
                /\ last'.result = SubSeq(last'.standings, 1, kept)]_vars

\* roster A, B, C; B's record fetch fails; the result is C (1/2), A (1/4)
C9_Witness ==
    /\ last.status = "fetched"
    /\ LastStrategy = "teams"
    /\ RosterOf(last.upstream) = <<TeamA, TeamB, TeamC>>
    /\ Failed(last.upstream.records["B"])
    /\ ~Failed(last.upstream.records["A"])
    /\ ~Failed(last.upstream.records["C"])
    /\ AbbrsOf(last.result) = <<"C", "A">>

\* a successful standings response without a usable entry: neither shape, or
\* no entry with a team in it
SchemaFailure ==
    /\ Called
    /\ LastStrategy = "standings"
    /\ last.http >= 1
    /\ ~Failed(last.upstream)
    /\ \/ ~IsDirect(last.upstream.data) /\ ~IsSectioned(last.upstream.data)
       \/ TeamAbbrs(UpstreamEntries(last.upstream.data)) = <<>>

SchemaFailureNotCached ==
    SchemaFailure => last.result = <<>> /\ DOMAIN last.saved = {}

CycleStep ==
    /\ now' = now
    /\ DOMAIN cache \subseteq DOMAIN cache'
    /\ cycle'.status = "completed"

\* what fetch_standings returns for the league k alone, from the cache as it
\* is, when the upstream answers up
Alone(k, up) == FetchStandingsCall(LeagueEntry(enabled_sports, k), cache, up).result

\* the sections of data for the league k
SectionsOf(data, k) == {i \in 1..Len(data) : data[i].league = k}

\* the enabled leagues, by their flags
EnabledKeys == {k \in LeagueKeySet : LeagueEntry(enabled_sports, k).enabled}

\* C11: in an update cycle every enabled league is fetched whatever the other
\* fetches do, the cycle runs to completion, and the section of each league is
\* the one its own fetch yields: present with the list the fetch returned, or
\* absent when the fetch returned nothing.
C11_FailureIsolation ==
    [][CycleStep =>
        /\ last_update' = now
        /\ \A k \in EnabledKeys :
            /\ \E i \in 1..Len(cycle'.fetched) : cycle'.fetched[i] = k
            /\ IF Alone(k, cycle'.answers[k]) = <<>>
               THEN SectionsOf(leaderboard_data', k) = {}
               ELSE \E i \in SectionsOf(leaderboard_data', k) :
                        leaderboard_data'[i].teams = Alone(k, cycle'.answers[k])]_vars

\* the nfl request timed out and the nba section is there all the same
C11_Witness ==
    /\ cycle.op = "update"
    /\ cycle.status = "completed"
    /\ EnabledKeys = {"nfl", "nba"}
    /\ cycle.answers["nfl"] = Failure("Timeout")
    /\ cycle.fetched = <<"nfl", "nba">>
    /\ Len(leaderboard_data) = 1
    /\ leaderboard_data[1].league = "nba"
    /\ Len(leaderboard_data[1].teams) = 1

\* C12: a display() call issues no outbound request, also when the last cycle
\* produced no data; requests are issued by update cycles only.
C12_NoRetryBetweenCycles ==
    cycle.op = "display" => cycle.http = 0

\* the position of the league k in the registry
RegistryIndex(k) == CHOOSE i \in 1..Len(LeagueKeys) : LeagueKeys[i] = k

\* the leagues of the sections of data, in order
LeaguesOf(data) == [i \in 1..Len(data) |-> data[i].league]

\* list is in registry order, no league twice
InRegistryOrder(list) ==
    \A i, j \in 1..Len(list) : i < j => RegistryIndex(list[i]) < RegistryIndex(list[j])

\* C20: an update cycle fetches the enabled leagues one after the other in
\* registry order and leaves in leaderboard_data exactly one section for each
\* enabled league whose fetch returned a non-empty list, in registry order,
\* whatever the sections were before; no section has an empty team list.
C20_UpdateCycleResult ==
    [][CycleStep =>
        /\ InRegistryOrder(cycle'.fetched)
        /\ {cycle'.fetched[i] : i \in 1..Len(cycle'.fetched)} = EnabledKeys
        /\ InRegistryOrder(LeaguesOf(leaderboard_data'))
        /\ {leaderboard_data'[i].league : i \in 1..Len(leaderboard_data')}
             = {k \in EnabledKeys : Alone(k, cycle'.answers[k]) # <<>>}
        /\ \A i \in 1..Len(leaderboard_data') : leaderboard_data'[i].teams # <<>>]_vars

\* a cycle after construction with a section for nfl, then one for nba
C20_Witness ==
    /\ cycle.op = "update"
    /\ cycle.status = "completed"
    /\ cycle.http > 0
    /\ LeaguesOf(leaderboard_data) = <<"nfl", "nba">>
    /\ Len(leaderboard_data[1].teams) = 2

(***************************************************************************)
(* Further claims about fetch_standings (Spec).                            *)
(***************************************************************************)
\* C13: a call increments the 'sports' counter once for each outbound
\* request it issues, league-level or per-team, successful or failed, and
\* not at all on a cache hit.
C13_CounterPerRequest ==
    Called => last.counted = last.http

\* the position of the poll a rankings league selects: hockey the first, the
\* others the first AP poll, else the first
ExpectedPoll == IF LastSlug = "mens-college-hockey" THEN 1 ELSE FirstApElseFirst(LastPolls)

\* C15: the list returned for a rankings league is the head of the selected
\* poll's entries in the poll's order, min(top_n, number of entries) long;
\* each record's rank is the entry's current position and its ranking_name
\* the poll's name.
C15_RankingsPollOrder ==
    RankingsFetched =>
        LET ranks == LastPolls[ExpectedPoll].ranks
            kept == IF Len(ranks) < LastConfig.top_teams
                    THEN Len(ranks) ELSE LastConfig.top_teams
        IN  /\ Len(last.result) = kept
            /\ \A j \in 1..kept :
                /\ last.result[j].abbreviation = ranks[j].team.abbreviation
                /\ last.result[j].rank = ranks[j].current
                /\ last.result[j].ranking_name = LastPolls[ExpectedPoll].name

\* the poll ranks A (1-2) before B (2-1): the result keeps that order
C15_Witness ==
    /\ RankingsFetched
    /\ LastConfig.top_teams = 2
    /\ AbbrsOf(last.result) = <<"A", "B">>
    /\ last.result[1].rank = 1
    /\ ~SortedDesc(last.result)

\* the step is a fetch_standings call: no entry leaves the cache
FetchStep ==
    /\ last'.status # "none"
    /\ DOMAIN cache \subseteq DOMAIN cache'

\* the roster teams of a teams answer whose record is in the cache c
CachedTeams(up, league_key, c) ==
    {j \in 1..Len(RosterOf(up)) :
        /\ HasAbbr(RosterOf(up)[j])
        /\ Cached(c, TeamRecordCacheKey(league_key, RosterOf(up)[j].team.abbreviation))}

\* the roster teams of a teams answer that have an abbreviation
NamedTeams(up) == {j \in 1..Len(RosterOf(up)) : HasAbbr(RosterOf(up)[j])}

\* C16: a call that finds a fresh entry under its strategy's key returns the
\* cached list as it is, issues no request and leaves the cache as it was; a
\* teams fetch that finds a team's record in the cache uses that record,
\* issues no request for the team and leaves the record's entry as it was.
C16_ReadThrough ==
    [][FetchStep =>
        LET league_key == LeagueEntry(enabled_sports, last'.league).league
            key == StrategyKey(league_key)
        IN  /\ Cached(cache, key) =>
                /\ cache' = cache
                /\ last'.http = 0
                /\ last'.result = cache[key].standings
            /\ (last'.status = "fetched" /\ Strategy(league_key) = "teams") =>
                /\ last'.http = 1 + Cardinality(NamedTeams(last'.upstream)
                                                 \ CachedTeams(last'.upstream, league_key, cache))
                /\ \A j \in CachedTeams(last'.upstream, league_key, cache) :
                    LET abbr == RosterOf(last'.upstream)[j].team.abbreviation
                        rkey == TeamRecordCacheKey(league_key, abbr)
                    IN  /\ cache'[rkey] = cache[rkey]
                        /\ \E i \in 1..Len(last'.standings) :
                            /\ last'.standings[i].abbreviation = abbr
                            /\ last'.standings[i].wins = cache[rkey].record.wins
                            /\ last'.standings[i].win_percentage
                                 = cache[rkey].record.win_percentage]_vars

\* roster A, B, C with two records in the cache: two requests, two writes
C16_Witness ==
    /\ last.status = "fetched"
    /\ LastStrategy = "teams"
    /\ Len(last.standings) = 3
    /\ last.http = 2
    /\ Cardinality(DOMAIN last.saved) = 2

\* C19: every record returned carries a record_summary: "W-L" when its ties
\* are 0, "W-L-T" otherwise, of its own wins, losses and ties.
C19_RecordSummaryFormat ==
    Called =>
        \A i \in 1..Len(last.result) :
            /\ "record_summary" \in DOMAIN last.result[i]
            /\ last.result[i].record_summary =
                 RecordSummary(last.result[i].wins, last.result[i].losses, last.result[i].ties)

(***************************************************************************)
(* SpecExtract: _extract_team_standing on one entry whose stats are drawn  *)
(* from StatPool, alone and as the middle entry of a three-entry response. *)
(***************************************************************************)
MaxStats == 3

\* stats of every type the extraction looks at, one it does not know, and a
\* value int() rejects
StatPool ==
    {Stat("wins", 2, 1), Stat("wins", 0, 1), Stat("losses", 1, 1), Stat("ties", 1, 1),
     Stat("winpercent", 1, 4), Stat("winpercent", 0, 1), Stat("overtimelosses", 2, 1),
     Stat("gamesplayed", 4, 1), Stat("gamesplayed", 0, 1),
     [type |-> "streak", value |-> BadValue], [type |-> "wins", value |-> BadValue]}

\* stat lists that name no type twice
StatLists ==
    {stats \in SeqsUpTo(StatPool, MaxStats) :
        \A i, j \in 1..Len(stats) : i # j => stats[i].type # stats[j].type}

\* the entry under extraction
EntryX(stats) ==
    [team |-> [displayName |-> "Xi", id |-> "9", abbreviation |-> "X"], stats |-> stats]

InitExtract ==
    /\ Idle
    /\ NoConfig
    /\ NoPlugin
    /\ enabled_sports = EmptyDict
    /\ cache = EmptyDict
    /\ last = NoCall
    /\ response \in {<<[league_key |-> k, entry |-> EntryX(stats)]>> :
                        k \in {"nfl", "nhl"}, stats \in StatLists}
    /\ extracted = <<>>

\* the entry is extracted alone, and between two other entries of a response
Extract ==
    /\ extracted = <<>>
    /\ extracted' =
        <<[standing |-> ExtractTeamStanding(response[1].entry, response[1].league_key),
           standings |-> ExtractEntries(<<EntryA, response[1].entry, EntryB>>,
                                        response[1].league_key)]>>
    /\ UNCHANGED <<parseVars, configVars, enabled_sports, cache, last, response, pluginVars>>

NextExtract == Extract

SpecExtract == InitExtract /\ [][NextExtract]_vars

(***************************************************************************)
(* Claims about _extract_team_standing (SpecExtract).                      *)
(***************************************************************************)
\* the stats of the entry under extraction
StatsIn == response[1].entry.stats

\* the entry has a stat of type t; its position and value
Supplied(t) == \E i \in 1..Len(StatsIn) : StatsIn[i].type = t
PositionOf(t) == CHOOSE i \in 1..Len(StatsIn) : StatsIn[i].type = t
ValueOf(t) == StatsIn[PositionOf(t)].value

\* the entry was extracted and a record came out
Extracted == extracted # <<>> /\ extracted[1].standing # <<>>

\* C14: an entry with a malformed stat value is still produced, with the
\* affected field at zero, and the entries around it are produced as they
\* would be without it.
C14_MalformedValueContained ==
    extracted # <<>> =>
        /\ Len(extracted[1].standings) = 3
        /\ AbbrsOf(extracted[1].standings) = <<"A", "X", "B">>
        /\ \A t \in {"wins", "losses", "ties"} :
            (Supplied(t) /\ ~IsNumber(ValueOf(t))) => extracted[1].standings[2][t] = 0

\* C17: a record whose entry supplies no winpercent stat has win_percentage
\* wins / (wins + losses + ties), and 0 when that sum is 0.
C17_WinPercentageDerived ==
    (Extracted /\ ~Supplied("winpercent")) =>
        LET rec == extracted[1].standing[1]
            total_games == rec.wins + rec.losses + rec.ties
        IN  rec.win_percentage = IF total_games = 0 THEN Zero ELSE Frac(rec.wins, total_games)

\* C18: a supplied winpercent is the record's win_percentage whatever wins,
\* losses and ties say; in the nhl, overtimelosses is read as ties, and
\* wins / gamesplayed is used when winpercent is zero or absent and
\* gamesplayed > 0; elsewhere overtimelosses and gamesplayed are ignored.
C18_SuppliedWinPercentFirst ==
    Extracted =>
        LET rec == extracted[1].standing[1]
            nhl == response[1].league_key = "nhl"
            supplied == IF Supplied("winpercent")
                        THEN Frac(ValueOf("winpercent")[1], ValueOf("winpercent")[2])
                        ELSE Zero
            games == IF nhl /\ Supplied("gamesplayed") THEN ValueOf("gamesplayed") ELSE <<0, 1>>
            aliased == /\ nhl
                       /\ Supplied("overtimelosses")
                       /\ Supplied("ties") => PositionOf("overtimelosses") > PositionOf("ties")
        IN  /\ rec.win_percentage =
                 IF supplied # Zero THEN supplied
                 ELSE IF games[1] > 0 THEN Frac(rec.wins * games[2], games[1])
                 ELSE Zero
            /\ rec.ties = IF aliased THEN ValueOf("overtimelosses")[1] \div ValueOf("overtimelosses")[2]
                          ELSE IF Supplied("ties") THEN ValueOf("ties")[1] \div ValueOf("ties")[2]
                          ELSE 0

\* wins 2, losses 1 and a supplied winpercent of 1/4: the record says 1/4
C18_Witness ==
    /\ Extracted
    /\ response[1].league_key = "nfl"
    /\ Supplied("winpercent")
    /\ extracted[1].standing[1].wins = 2
    /\ extracted[1].standing[1].losses = 1
    /\ extracted[1].standing[1].win_percentage = <<1, 4>>

(***************************************************************************)
(* Further claims about update() (SpecPlugin).                             *)
(***************************************************************************)
\* the step is an update(force) call by the host: time stands still, no entry
\* leaves the cache, the call is on record
UpdateStep ==
    /\ now' = now
    /\ DOMAIN cache \subseteq DOMAIN cache'
    /\ cycle'.op = "update"

\* C22: update(force=False) less than update_interval after last_update does
\* nothing: no fetch, leaderboard_data, last_update and the scroll cache as
\* they were.  update(force=True) runs the cycle whatever the time: every
\* enabled league is fetched.  last_update changes only in a call whose cycle,
\* with at least one league enabled, ran to completion, and then to the
\* time of the call.
C22_UpdateTimeCheck ==
    [][/\ (UpdateStep /\ ~cycle'.force /\ now - last_update < update_interval) =>
            /\ cycle'.status = "skipped"
            /\ cycle'.http = 0
            /\ cycle'.fetched = <<>>
            /\ UNCHANGED <<leaderboard_data, last_update, cached_image, cache>>
       /\ (UpdateStep /\ cycle'.force) =>
            /\ cycle'.status # "skipped"
            /\ {cycle'.fetched[i] : i \in 1..Len(cycle'.fetched)} = EnabledKeys
            /\ EnabledKeys # {} => cycle'.status = "completed"
       /\ last_update' # last_update =>
            /\ cycle'.status = "completed"
            /\ EnabledKeys # {}
            /\ last_update' = now]_vars

\* one second after a cycle that fetched two sections, update() is skipped
C22_Witness ==
    /\ cycle.op = "update"
    /\ ~cycle.force
    /\ cycle.status = "skipped"
    /\ now = last_update + 1
    /\ Len(leaderboard_data) = 2

(***************************************************************************)
(* Further claims about the cache writes and the dispatch (Spec).          *)
(***************************************************************************)
\* the last call, of the rankings or the teams strategy, got its league-level
\* response and built no record from it
ZeroRecords ==
    /\ Called
    /\ LastStrategy \in {"rankings", "teams"}
    /\ last.http >= 1
    /\ ~Failed(LeagueAnswer(last.upstream))
    /\ last.standings = <<>>

\* C27: a rankings or teams fetch whose successful response yields no team
\* record (the selected poll ranks nobody; the roster is empty, or every team
\* lacks an abbreviation or fails its record fetch) returns an empty list and
\* writes no entry under the league's key.
C27_ZeroRecordsNotCached ==
    ZeroRecords =>
        /\ last.result = <<>>
        /\ StrategyKey(LastSlug) \notin DOMAIN last.saved

\* the strategy the dispatch is said to pick for a slug
ClaimedStrategy(league_key) ==
    IF league_key \in {"college-football", "mens-college-hockey",
                       "mens-college-basketball", "womens-college-basketball"}
    THEN "rankings"
    ELSE IF league_key \in {"nfl", "mlb", "nhl", "college-baseball"} THEN "standings"
    ELSE "teams"

\* what that strategy, run on its own, yields
ClaimedOutcome(league_config, c, up) ==
    CASE ClaimedStrategy(league_config.league) = "rankings" -> FetchRankings(league_config, c, up)
      [] ClaimedStrategy(league_config.league) = "standings" ->
           FetchStandingsData(league_config, c, up)
      [] OTHER -> FetchTeamsData(league_config, c, up)

\* C26: a fetch_standings call that finds nothing under the league's
\* unsuffixed key does what one strategy does and nothing else: the rankings
\* strategy for the four college polls, the standings endpoint for nfl, mlb,
\* nhl and college-baseball, the teams endpoint for every other league; and
\* every registry entry holds the fields its strategy subscripts.
C26_StrategyDispatch ==
    [][FetchStep =>
        LET league_config == LeagueEntry(enabled_sports, last'.league)
            expected == ClaimedOutcome(league_config, cache, last'.upstream)
        IN  /\ ~Cached(cache, LeagueCacheKey(league_config.league)) =>
                /\ last'.status = expected.status
                /\ last'.result = expected.result
                /\ last'.http = expected.http
                /\ last'.params = expected.params
                /\ cache' = expected.cache
            /\ \A k \in LeagueKeySet :
                RequiredFields(LeagueEntry(enabled_sports, k).league)
                    \subseteq DOMAIN LeagueEntry(enabled_sports, k)]_vars

\* a college baseball fetch went through the standings endpoint
C26_Witness ==
    /\ last.status = "fetched"
    /\ Len(last.result) > 0
    /\ last.league = "ncaa_baseball"
    /\ "level" \in DOMAIN last.params
    /\ StandingsCacheKey("college-baseball") \in DOMAIN last.saved

KeyUses ==
    {<<p, LeagueEntry(enabled_sports, k).league, None>> :
        p \in {"rankings", "standings", "teams"}, k \in LeagueKeySet}
    \cup {<<"record", LeagueEntry(enabled_sports, k).league, a>> :
            k \in LeagueKeySet, a \in Abbrs}

KeyOf(use) ==
    CASE use[1] = "rankings" -> RankingsCacheKey(use[2])
      [] use[1] = "standings" -> StandingsCacheKey(use[2])
      [] use[1] = "teams" -> LeagueCacheKey(use[2])
      [] use[1] = "record" -> TeamRecordCacheKey(use[2], use[3])

\* the cache after the fetch of league k answered up, then of league j
\* answered vp, from the cache c
CacheAfter(c, k, up, j, vp) ==
    FetchStandingsCall(LeagueEntry(enabled_sports, j),
                       FetchStandingsCall(LeagueEntry(enabled_sports, k), c, up).cache,
                       vp).cache

CycleCompleteNow == is_cycle_complete(dynamic_duration_enabled, cycle_complete)

\* the call just made is one the claim names as restarting the cycle
RestartsCycle ==
    \/ cycle.op = "reset_cycle_state"
    \/ cycle.created
    \/ cycle.op = "display" /\ cycle.force

\* the call just made restarted the cycle: reset_cycle_state(), or a display()
\* that created a scroll image (every display(force_clear=True) that scrolls)
RestartedCycle ==
    \/ cycle.op = "reset_cycle_state"
    \/ cycle.created

\* C23 (as stated): without dynamic duration is_cycle_complete() is true in
\* every state; with it, is_cycle_complete() is true after a call only if that
\* call's display() observed is_scroll_complete(), or it was true before and
\* the call was neither reset_cycle_state(), nor the creation of a scroll
\* image, nor any display(force_clear=True); after reset_cycle_state() it is
\* false.
C23_CompleteOnlyIfObservedSinceForceClear ==
    /\ [](~dynamic_duration_enabled => CycleCompleteNow)
    /\ [][dynamic_duration_enabled' /\ CycleCompleteNow'
            => \/ cycle'.observed
               \/ CycleCompleteNow /\ ~RestartsCycle']_vars
    /\ [][dynamic_duration_enabled' /\ cycle'.op = "reset_cycle_state"
            => ~CycleCompleteNow']_vars

\* C23 (amended): the same, the calls that restart the cycle being
\* reset_cycle_state() and the creation of a scroll image; a
\* display(force_clear=True) that returns before it scrolls leaves the flag.
C23_CompleteOnlyIfObservedSinceRestart ==
    /\ [](~dynamic_duration_enabled => CycleCompleteNow)
    /\ [][dynamic_duration_enabled' /\ CycleCompleteNow'
            => \/ cycle'.observed
               \/ CycleCompleteNow /\ ~RestartedCycle']_vars
    /\ [][dynamic_duration_enabled' /\ cycle'.op = "reset_cycle_state"
            => ~CycleCompleteNow']_vars
    /\ [][cycle'.op = "display" /\ cycle'.force /\ cycle'.frame = "scrolled"
            => cycle'.created /\ CycleCompleteNow' = (~dynamic_duration_enabled' \/ cycle'.observed)]_vars

\* a display(force_clear=True) created the image and saw the scroll complete
C23_Witness ==
    /\ dynamic_duration_enabled
    /\ cycle.op = "display" /\ cycle.force /\ cycle.created /\ cycle.observed
    /\ CycleCompleteNow

(***************************************************************************)
(* C29  Image / data consistency.                                          *)
(***************************************************************************)
\* the call just made was a display() that pasted a scrolled frame
FrameScrolled == cycle.op = "display" /\ cycle.frame = "scrolled"

\* C29: whenever display() has pasted a scrolled frame, the image cached by
\* the scroll helper is the one rendered from the current leaderboard_data;
\* no frame is scrolled from an image of other data.
C29_FrameFromCurrentData ==
    FrameScrolled => cached_image = <<leaderboard_data>>

(***************************************************************************)
(* C24  Dynamic duration normalization.                                    *)
(***************************************************************************)
\* __init__ was the last call, and what _load_dynamic_duration_settings left
Loaded == call.op = "init"
Settings == load_dynamic_duration_settings(global_config)

\* the value configured for a setting: the legacy key's where it is given, else the dict's
\* under the key or its alias
ConfiguredValue(key, alias, legacy_key) ==
    IF Get(global_config, legacy_key, Null).kind # "None" THEN global_config[legacy_key]
    ELSE IF Get(global_config, "dynamic_duration", Null).kind = "dict"
    THEN GetAliased(global_config.dynamic_duration.d, key, alias)
    ELSE Null

\* the settings are returned, within their bounds and in order
Normalized(settings) ==
    /\ ~settings.raised
    /\ settings.min_duration_seconds >= 10
    /\ settings.max_duration_seconds >= 30
    /\ settings.controller_cap_seconds >= 60
    /\ 0 <= settings.buffer_ratio /\ settings.buffer_ratio <= 100
    /\ settings.min_duration_seconds <= settings.max_duration_seconds
    /\ settings.max_duration_seconds <= settings.controller_cap_seconds

\* a setting configured once, with a value that is no number, has its default
DefaultKept(settings) ==
    /\ Cardinality(DOMAIN global_config \ {"dynamic_duration"}) = 0
       /\ ConfiguredValue("min_duration_seconds", "min_duration", "min_duration").kind
            \in {"str", "None", "nan", "inf"}
       => settings.min_duration_seconds = defaults.min_duration_seconds
    /\ Cardinality(DOMAIN global_config \ {"dynamic_duration"}) = 0
       /\ ConfiguredValue("buffer_ratio", "duration_buffer", "duration_buffer").kind
            \in {"str", "None"}
       => settings.buffer_ratio = defaults.buffer_ratio

\* C24: for every dynamic_duration value and every combination of legacy
\* overrides _load_dynamic_duration_settings returns settings with
\* min >= 10, max >= 30, cap >= 60, 0 <= buffer_ratio <= 1 and
\* min <= max <= cap, and a value that cannot be converted to a number leaves
\* the default in place.
C24_DurationSettingsNormalized ==
    Loaded => Normalized(Settings) /\ DefaultKept(Settings)

(***************************************************************************)
(* C30  scroll_speed is defined before it is read.                         *)
(***************************************************************************)
\* C30: after __init__ the plugin has a scroll_speed, whatever the global
\* configuration, and no get_info() or set_scroll_delay() call reads an
\* unassigned scroll_speed.
C30_ScrollSpeedDefined ==
    /\ Built => "scroll_speed" \in DOMAIN attrs
    /\ call.op \in {"get_info", "set_scroll_delay"} => ~call.raised

(***************************************************************************)
(* C25  League registry enablement.                                        *)
(***************************************************************************)
\* the flag the claim gives a league: the configured one, else the default
ClaimedFlag(k) ==
    IF k \in DOMAIN enabled_sports /\ "enabled" \in DOMAIN enabled_sports[k]
    THEN enabled_sports[k].enabled
    ELSE k \in {"nfl", "ncaa_fb", "ncaam_hockey"}

\* the keys of a list
KeysOf(list) == {list[i] : i \in 1..Len(list)}

\* C25: get_enabled_leagues() returns, in registry order and once each,
\* exactly the keys whose flag is true - the configured enabled_sports[key]
\* .enabled, else true for nfl, ncaa_fb and ncaam_hockey and false for the
\* others; is_league_enabled(k) is true iff k is among them;
\* get_league_config returns None for an unknown key and an entry for a
\* registry key; no call changes enabled_sports.
C25_RegistryEnablement ==
    /\ [](call.op = "get_enabled_leagues"
            => /\ InRegistryOrder(call.result)
               /\ KeysOf(call.result) = {k \in LeagueKeySet : ClaimedFlag(k)})
    /\ [](call.op = "is_league_enabled"
            => call.result = (call.key \in KeysOf(get_enabled_leagues(enabled_sports))))
    /\ [](call.op = "get_league_config"
            => (call.result = <<>>) = (call.key \notin LeagueKeySet))
    /\ [][enabled_sports' = enabled_sports]_vars

\* defaults and configured flags show in one answer: ncaa_fb and
\* ncaam_hockey enabled by default, nfl disabled and nba enabled by
\* configuration
C25_Witness ==
    /\ call.op = "get_enabled_leagues"
    /\ DOMAIN enabled_sports = {"nfl", "nba"}
    /\ "enabled" \in DOMAIN enabled_sports.nfl /\ ~enabled_sports.nfl.enabled
    /\ "enabled" \in DOMAIN enabled_sports.nba /\ enabled_sports.nba.enabled
    /\ call.result = <<"nba", "ncaa_fb", "ncaam_hockey">>

====
